---- MODULE Spec2Model ----
(***************************************************************************)
(* Model of jax/experimental/pallas/ops/gpu/attention_mgpu.py:             *)
(* the FlashAttention3 kernel instance (two compute warpgroups and one     *)
(* memory warpgroup synchronised by barriers), the pipeline-emitter        *)
(* formulation of the same kernel, the entry validation of both entry      *)
(* points and the TuningConfig constructor.                                *)
(***************************************************************************)
EXTENDS Integers, Sequences, FiniteSets, TLC

\* ------------------------------------------------------------------------
\* Bounds of the model
\* ------------------------------------------------------------------------
MaxTiles == 3

MaxSteps == 3

\* query super-tiles (of 2 * block_q rows) per batch entry and head
MaxQTiles == 2

\* calls of set_error_if and raise_if_error in one run
MaxCalls == 5

\* ------------------------------------------------------------------------
\* Program constants
\* ------------------------------------------------------------------------
compute_wgs == 2

MEMORY_WG == 2

VARIABLES
  ctor,                 \* the arguments of a TuningConfig(...) call and its progress
  raised,               \* the error raised by that call
  config,               \* the TuningConfig passed to the entry point
  q, k, v,              \* the tensors passed to the entry point (shape and dtype)
  outcome,              \* per entry point: the error raised, or "launched"
  impl,                 \* "attention" | "emitter": which entry point built the kernel
  pc,                   \* position of each warpgroup in its body
  kv_step,              \* loop counter of each warpgroup
  k_smem, v_smem,       \* circular buffer slots
  qo_smem,              \* per compute group query/output staging buffer
  tma,                  \* asynchronous transfers in flight
  k_barriers, v_barriers, q_barriers,
  k_consumed_barriers, v_consumed_barriers,
  schedule_barrier,
  waits,                \* per warpgroup, per barrier: phases already waited for
  mma,                  \* per compute group: the matmul in flight
  qk,                   \* per compute group: scores of the current step
  carry,                \* per compute group: running state (acc, m_i, l_i)
  out_ref,              \* per compute group: rows written back to off-chip memory
  issued,               \* history: transfers issued by the memory group
  signals,              \* history: consumed-barrier arrivals of each compute group
  timeline,             \* history, per compute group: matmuls issued, schedule-barrier
                        \* arrivals and waits, each with the phases completed so far
  save_residuals,       \* the save_residuals argument of the entry point
  axis,                 \* lax.axis_index of the kernel instance: batch, q_seq, heads
  result,               \* what the entry point returned
  lse_smem2,            \* per compute group log-sum-exp staging buffer, if allocated
  accesses,             \* history, per compute group: off-chip rows read and written
  error,                \* error_check: the deferred error flag and its message
  trace,                \* error_check: the calls made so far and what they raised
  bench                 \* main: the benchmark loop's position, log and outcome

vars == <<ctor, raised, config, q, k, v, outcome, impl,
          pc, kv_step, k_smem, v_smem, qo_smem, tma,
          k_barriers, v_barriers, q_barriers,
          k_consumed_barriers, v_consumed_barriers, schedule_barrier,
          waits, mma, qk, carry, out_ref, issued, signals, timeline,
          save_residuals, axis, result, lse_smem2, accesses, error, trace,
          bench>>

\* what a running kernel instance never changes
cfgvars == <<ctor, raised, config, q, k, v, outcome, impl, save_residuals, axis,
            error, trace, bench>>

kernelvars == <<pc, kv_step, k_smem, v_smem, qo_smem, tma,
                k_barriers, v_barriers, q_barriers,
                k_consumed_barriers, v_consumed_barriers, schedule_barrier,
                waits, mma, qk, carry, out_ref, issued, signals, timeline,
                lse_smem2, accesses>>

\* the log-sum-exp staging buffers and the history of off-chip accesses
lsevars == <<lse_smem2, accesses>>

bufvars == <<k_smem, v_smem, qo_smem, tma>>

readyvars == <<k_barriers, v_barriers, q_barriers>>

consvars == <<k_consumed_barriers, v_consumed_barriers>>

statevars == <<mma, qk, carry, out_ref>>

histvars == <<issued, signals, timeline>>

ComputeWGs == 0 .. (compute_wgs - 1)

WGs == ComputeWGs \cup {MEMORY_WG}

Min(a, b) == IF a < b THEN a ELSE b

\* batch_size, q_seq_len, num_q_heads, head_dim = q.shape
q_seq_len == q.shape[2]

head_dim == q.shape[4]

\* _, kv_seq_len, num_kv_heads, _ = k.shape
kv_seq_len == k.shape[2]

block_q == config.block_q

block_kv == config.block_kv

use_schedule_barrier == config.use_schedule_barrier

\* kv_seq_len // block_kv, the trip count of the key/value loops
num_kv_tiles == kv_seq_len \div block_kv

\* effective pipeline depth:
\* min(config.max_concurrent_steps, kv_seq_len // config.block_kv)
max_concurrent_steps == Min(config.max_concurrent_steps, kv_seq_len \div config.block_kv)

\* the slots of k_smem / v_smem and of the per-slot barriers
Slots == IF impl \in {"attention", "emitter"} THEN 0 .. (max_concurrent_steps - 1) ELSE {}

\* ------------------------------------------------------------------------
\* Barriers: an arrival count, the arrivals of the current phase and the
\* number of completed phases.  A wait by a warpgroup consumes one completed
\* phase that this warpgroup has not waited for yet.
\* ------------------------------------------------------------------------
\* a barrier that every single arrival completes, whatever count was asked for
BarrierOfOneArrival(num_arrivals) ==
  [num_arrivals |-> 1, pending |-> 0, phase |-> 0]

Barrier(num_arrivals) ==
  [num_arrivals |-> num_arrivals, pending |-> 0, phase |-> 0]

barrier_arrive(b) ==
  IF b.pending + 1 >= b.num_arrivals
    THEN [b EXCEPT !.pending = 0, !.phase = @ + 1]
    ELSE [b EXCEPT !.pending = @ + 1]

barrier_ready(wg, key, b) == b.phase > waits[wg][key]

BarrierKeys ==
  ({"k", "v", "kc", "vc"} \X (0 .. (MaxSteps + 1))) \cup ({"q"} \X ComputeWGs)
    \cup {<<"s", 0>>}

barrier_wait(wg, key) ==
  waits' = [waits EXCEPT ![wg][key] = @ + 1]

EmptySlot == [tile |-> -1, full |-> FALSE]

\* a staging buffer: what it holds and, once it holds the output, the
\* normalised tile acc / l_i as a term over the running state
EmptyStage == [state |-> "empty", acc |-> <<>>, l_i |-> <<>>]

\* the scores of one step: wgmma(qo_smem, k_smem[slot]^T)
Scores(step, lhs, rhs) == [step |-> step, q |-> lhs, k |-> rhs]

NoScores == Scores(-1, "none", EmptySlot)

NoMma == [kind |-> "none", slot |-> -1, q |-> "none", s |-> NoScores, rhs |-> EmptySlot]

\* One update of a running-state component.  Matmul and softmax are
\* uninterpreted: a component is the sequence of updates applied to it.
Op(op, s, rhs) == [op |-> op, s |-> s, v |-> rhs]

InitCarry ==
  [acc |-> << Op("zeros", NoScores, EmptySlot) >>,
   m_i |-> << Op("-inf", NoScores, EmptySlot) >>,
   l_i |-> << Op("zeros", NoScores, EmptySlot) >>]

\* ------------------------------------------------------------------------
\* TuningConfig and tensors
\* ------------------------------------------------------------------------
TuningConfig(bq, bkv, steps, usb) ==
  [block_q |-> bq, block_kv |-> bkv, max_concurrent_steps |-> steps,
   use_schedule_barrier |-> usb]

NoConfig == TuningConfig(-1, -1, -1, FALSE)

NoCall == [args |-> NoConfig, state |-> "idle"]

Tensor(shape, dtype) == [shape |-> shape, dtype |-> dtype]

EntryPoints == {"attention", "emitter"}

NotCalled == [e \in EntryPoints |-> "not_called"]

NoTensor == Tensor(<<>>, "none")

\* what an entry point returns: the output alone, or the output and a
\* one-element tuple holding the log-sum-exp tensor
Result(kind, out, lse) == [kind |-> kind, out |-> out, lse |-> lse]

NoResult == Result("none", NoTensor, NoTensor)

\* the coordinates of a kernel instance in the grid
AxisIndex(batch, q_seq, heads) == [batch |-> batch, q_seq |-> q_seq, heads |-> heads]

\* a log-sum-exp staging buffer; state "none" when lse_smem2 is None
LseStage(state, m_i, l_i) == [state |-> state, m_i |-> m_i, l_i |-> l_i]

\* error_check: the flag and the message stored with it
ErrorState(is_set, message) == [is_set |-> is_set, message |-> message]

NoError == ErrorState(FALSE, "")

\* An exception: its class and the words of its message (e.args[0]);
\* NoException stands for a block that ended normally
Exception(type, args) == [type |-> type, args |-> args]

NoException == Exception("none", <<>>)

\* main: the problem being measured, the position in (256, 128, 64), the
\* attempts made for this problem, where the loop stands, the exception that
\* left main, and the block_kv whose runtime `best` holds (0 for None)
Bench(problem, i, log, status, exc, best) ==
  [problem |-> problem, i |-> i, log |-> log, status |-> status,
   exc |-> exc, best |-> best]

NoBench == Bench(0, 0, <<>>, "none", NoException, 0)

\* post_init with the last comparison off by one (<= 2 for < 2)
post_init_off_by_one(self) ==
  IF self.block_q % 64 # 0 THEN "block_q"
  ELSE IF self.block_kv % 64 # 0 THEN "block_kv"
  ELSE IF self.max_concurrent_steps <= 2 THEN "max_concurrent_steps"
  ELSE "none"

\* TuningConfig.__post_init__: the field whose check raises, or "none"
post_init(self) ==
  IF self.block_q % 64 # 0 THEN "block_q"
  ELSE IF self.block_kv % 64 # 0 THEN "block_kv"
  ELSE IF self.max_concurrent_steps < 2 THEN "max_concurrent_steps"
  ELSE "none"

\* the checks of attention() in the order the code runs them, up to the
\* launch: the kv_seq_len check sits in the kernel body, which is traced by
\* plgpu.kernel(...) after the q_seq_len check
attention(tq, tk, tv, cfg) ==
  IF Len(tq.shape) # 4 \/ Len(tk.shape) # 4 \/ Len(tv.shape) # 4 THEN "rank"
  ELSE LET kv_shape == <<tq.shape[1], tk.shape[2], tk.shape[3], tq.shape[4]>> IN
    IF tk.shape # kv_shape THEN "k_shape"
    ELSE IF tk.shape # kv_shape THEN "v_shape"
    ELSE IF tq.dtype # tk.dtype \/ tq.dtype # tv.dtype THEN "dtype_mismatch"
    ELSE IF tq.shape[3] % tk.shape[3] # 0 THEN "num_heads"
    ELSE IF tq.shape[4] % 64 # 0 THEN "head_dim"
    ELSE IF tq.dtype \notin {"float16", "bfloat16"} THEN "dtype_unsupported"
    ELSE IF tq.shape[2] % (cfg.block_q * 2) # 0 THEN "q_seq_len"
    ELSE IF tk.shape[2] % cfg.block_kv # 0 THEN "kv_seq_len"
    ELSE "launched"

\* the checks of attention_with_pipeline_emitter() up to the launch
attention_with_pipeline_emitter(tq, tk, tv, cfg) ==
  IF Len(tq.shape) # 4 \/ Len(tk.shape) # 4 \/ Len(tv.shape) # 4 THEN "rank"
  ELSE LET kv_shape == <<tq.shape[1], tk.shape[2], tk.shape[3], tq.shape[4]>> IN
    IF tk.shape # kv_shape THEN "k_shape"
    ELSE IF tk.shape # kv_shape THEN "v_shape"
    ELSE IF tq.dtype # tk.dtype \/ tq.dtype # tv.dtype THEN "dtype_mismatch"
    ELSE IF tq.shape[3] % tk.shape[3] # 0 THEN "num_heads"
    ELSE IF tq.shape[4] % 64 # 0 THEN "head_dim"
    ELSE IF tq.dtype \notin {"float16", "bfloat16"} THEN "dtype_unsupported"
    ELSE IF tq.shape[2] % (cfg.block_q * 2) # 0 THEN "q_seq_len"
    ELSE "launched"

InitKernel ==
  /\ pc = [wg \in WGs |->
             CASE impl = "attention" -> (IF wg = MEMORY_WG THEN "prime_k" ELSE "q_copy")
               [] impl = "emitter" -> (IF wg = MEMORY_WG THEN "d_prime_k" ELSE "e_q_copy")
               [] OTHER -> "idle"]
  /\ kv_step = [wg \in WGs |-> 0]
  /\ k_smem = [s \in Slots |-> EmptySlot]
  /\ v_smem = [s \in Slots |-> EmptySlot]
  /\ qo_smem = [g \in ComputeWGs |-> EmptyStage]
  /\ tma = {}
  /\ k_barriers = [s \in Slots |-> Barrier(1)]
  /\ v_barriers = [s \in Slots |-> Barrier(1)]
  /\ q_barriers = [g \in ComputeWGs |-> Barrier(1)]
  /\ k_consumed_barriers = [s \in Slots |-> Barrier(compute_wgs)]
  /\ v_consumed_barriers = [s \in Slots |-> Barrier(compute_wgs)]
  /\ schedule_barrier = Barrier(compute_wgs)
  /\ waits = [wg \in WGs |-> [key \in BarrierKeys |-> 0]]
  /\ mma = [g \in ComputeWGs |-> NoMma]
  /\ qk = [g \in ComputeWGs |-> NoScores]
  /\ carry = [g \in ComputeWGs |-> InitCarry]
  /\ out_ref = [g \in ComputeWGs |-> <<>>]
  /\ issued = <<>>
  /\ signals = [g \in ComputeWGs |-> <<>>]
  /\ lse_smem2 = [g \in ComputeWGs |->
                    LseStage(IF save_residuals THEN "empty" ELSE "none", <<>>, <<>>)]
  /\ accesses = [g \in ComputeWGs |-> <<>>]
  /\ timeline = [g \in ComputeWGs |-> <<>>]
  /\ result = NoResult

\* The launches both entry points accept that the kernel specifications
\* explore: block sizes of 64, up to MaxTiles key/value tiles, one query
\* super-tile.
Launch(head_dims, flags) ==
  /\ ctor = NoCall
  /\ raised = "none"
  /\ config \in {TuningConfig(64, 64, steps, usb) : steps \in 2 .. MaxSteps, usb \in flags}
  /\ \E n \in 1 .. MaxTiles, hd \in head_dims :
       /\ q = Tensor(<<1, 128, 1, hd>>, "float16")
       /\ k = Tensor(<<1, 64 * n, 1, hd>>, "float16")
       /\ v = Tensor(<<1, 64 * n, 1, hd>>, "float16")
  /\ outcome = [NotCalled EXCEPT ![impl] = "launched"]
  /\ save_residuals = FALSE
  /\ axis = AxisIndex(0, 0, 0)
  /\ error = NoError
  /\ trace = <<>>
  /\ bench = NoBench

\* One kernel instance of a launch accepted by attention, which ignores
\* config.use_schedule_barrier and branches on head_dim <= 128.
Init ==
  /\ impl = "attention"
  /\ Launch({64, 256}, {TRUE})
  /\ InitKernel

\* One kernel instance of a launch accepted by attention_with_pipeline_emitter,
\* which honours config.use_schedule_barrier and has no branch on head_dim.
InitEmitter ==
  /\ impl = "emitter"
  /\ Launch({64}, BOOLEAN)
  /\ InitKernel

\* Any one kernel instance of a launch of attention over a grid of several
\* batch entries, query super-tiles and heads, with and without
\* save_residuals: one key/value tile of head_dim 64, or three tiles of
\* head_dim 256 through two slots.
InitResiduals ==
  /\ impl = "attention"
  /\ ctor = NoCall
  /\ raised = "none"
  /\ config = TuningConfig(64, 64, 2, TRUE)
  /\ \E b \in {1, 2}, t \in 1 .. MaxQTiles, h \in {1, 2},
        kv \in {<<1, 64>>, <<3, 256>>} :
       /\ q = Tensor(<<b, 128 * t, h, kv[2]>>, "bfloat16")
       /\ k = Tensor(<<b, 64 * kv[1], 1, kv[2]>>, "bfloat16")
       /\ v = Tensor(<<b, 64 * kv[1], 1, kv[2]>>, "bfloat16")
  /\ attention(q, k, v, config) = "launched"
  /\ outcome = [NotCalled EXCEPT ![impl] = "launched"]
  /\ save_residuals \in BOOLEAN
  /\ axis \in {AxisIndex(b, i, h) : b \in 0 .. (q.shape[1] - 1),
                                     i \in 0 .. ((q.shape[2] \div (config.block_q * 2)) - 1),
                                     h \in 0 .. (q.shape[3] - 1)}
  /\ error = NoError
  /\ trace = <<>>
  /\ bench = NoBench
  /\ InitKernel

\* ------------------------------------------------------------------------
\* TuningConfig(...) calls
\* ------------------------------------------------------------------------
BlockArgs == {-64, 0, 1, 63, 64, 65, 128}

StepArgs == {0, 1, 2, 3}

InitConfig ==
  /\ impl = "none"
  /\ ctor \in {[args |-> TuningConfig(bq, bkv, steps, usb), state |-> "called"] :
                 bq \in BlockArgs, bkv \in BlockArgs, steps \in StepArgs, usb \in BOOLEAN}
  /\ raised = "none"
  /\ config = NoConfig
  /\ q = NoTensor /\ k = NoTensor /\ v = NoTensor
  /\ outcome = NotCalled
  /\ save_residuals = FALSE
  /\ axis = AxisIndex(0, 0, 0)
  /\ error = NoError
  /\ trace = <<>>
  /\ bench = NoBench
  /\ InitKernel

\* the dataclass constructor: the fields are set, __post_init__ runs, and
\* the object is returned unless it raised
Construct ==
  /\ ctor.state = "called"
  /\ raised' = post_init(ctor.args)
  /\ config' = IF post_init(ctor.args) = "none" THEN ctor.args ELSE config
  /\ ctor' = [ctor EXCEPT !.state = IF post_init(ctor.args) = "none"
                                      THEN "returned" ELSE "raised"]
  /\ UNCHANGED <<q, k, v, outcome, impl, save_residuals, axis, result, error, trace,
                 bench, kernelvars>>

SpecConfig == InitConfig /\ [][Construct]_vars

\* ------------------------------------------------------------------------
\* error_check: the deferred error flag driven as the tests drive it
\* ------------------------------------------------------------------------
\* the messages of the checks in f and in g
Messages == {"x must be greater than 0 in f", "x must be greater than 0 in g"}

\* set_error_if with last-error-wins: a later failing check overwrites
set_error_if_overwrites(e, pred, msg) ==
  IF pred THEN ErrorState(TRUE, msg) ELSE e

\* error_check.set_error_if(pred, msg): set the flag and the message if the
\* predicate holds and no error is stored
set_error_if(e, pred, msg) ==
  IF pred /\ ~ e.is_set THEN ErrorState(TRUE, msg) ELSE e

\* raise_if_error that reads the flag and leaves it set
raise_if_error_keeps(e) == [raised |-> e, error |-> e]

\* error_check.raise_if_error(): read the flag and clear it; raises
\* JaxValueError(message) when the flag read is set
raise_if_error(e) == [raised |-> e, error |-> NoError]

SetCall(pred, msg) ==
  [op |-> "set_error_if", pred |-> pred, msg |-> msg, raised |-> NoError]

RaiseCall(e) ==
  [op |-> "raise_if_error", pred |-> FALSE, msg |-> "", raised |-> e]

InitErrorCheck ==
  /\ impl = "none"
  /\ ctor = NoCall
  /\ raised = "none"
  /\ config = NoConfig
  /\ q = NoTensor /\ k = NoTensor /\ v = NoTensor
  /\ outcome = NotCalled
  /\ save_residuals = FALSE
  /\ axis = AxisIndex(0, 0, 0)
  /\ error = NoError
  /\ trace = <<>>
  /\ bench = NoBench
  /\ InitKernel

\* f(x) / g(x): error_check.set_error_if(x <= 0, "... in f")
SetErrorIf ==
  /\ Len(trace) < MaxCalls
  /\ \E pred \in BOOLEAN, msg \in Messages :
       /\ error' = set_error_if(error, pred, msg)
       /\ trace' = Append(trace, SetCall(pred, msg))
  /\ UNCHANGED <<ctor, raised, config, q, k, v, outcome, impl, save_residuals, axis,
                 result, bench, kernelvars>>

\* error_check.raise_if_error(), inside or outside assertRaisesRegex
RaiseIfError ==
  /\ Len(trace) < MaxCalls
  /\ error' = raise_if_error(error).error
  /\ trace' = Append(trace, RaiseCall(raise_if_error(error).raised))
  /\ UNCHANGED <<ctor, raised, config, q, k, v, outcome, impl, save_residuals, axis,
                 result, bench, kernelvars>>

NextErrorCheck == SetErrorIf \/ RaiseIfError

SpecErrorCheck == InitErrorCheck /\ [][NextErrorCheck]_vars

\* ------------------------------------------------------------------------
\* Calls of the two entry points with a constructed configuration
\* ------------------------------------------------------------------------
DTypes == {"float16", "bfloat16", "float32"}

QShapes ==
  {<<1, 128, 2>>} \cup
  {<<1, len, heads, hd>> : len \in {128, 192}, heads \in {2, 3}, hd \in {64, 96}}

KVShapes ==
  {<<1, 128, 1>>} \cup
  {<<b, len, heads, hd>> :
     b \in {1, 2}, len \in {128, 192}, heads \in {1, 2}, hd \in {64, 96}}

InitEntry ==
  /\ impl = "none"
  /\ ctor = NoCall
  /\ raised = "none"
  /\ config \in {TuningConfig(64, bkv, 2, TRUE) : bkv \in {64, 128}}
  /\ q \in {Tensor(sh, dt) : sh \in QShapes, dt \in DTypes}
  /\ k \in {Tensor(sh, dt) : sh \in KVShapes, dt \in DTypes}
  /\ v \in {Tensor(sh, dt) : sh \in KVShapes, dt \in DTypes}
  /\ outcome = NotCalled
  /\ save_residuals = FALSE
  /\ axis = AxisIndex(0, 0, 0)
  /\ error = NoError
  /\ trace = <<>>
  /\ bench = NoBench
  /\ InitKernel

CallAttention ==
  /\ outcome["attention"] = "not_called"
  /\ outcome' = [outcome EXCEPT !["attention"] = attention(q, k, v, config)]
  /\ UNCHANGED <<ctor, raised, config, q, k, v, impl, save_residuals, axis, result,
                 error, trace, bench, kernelvars>>

CallEmitter ==
  /\ outcome["emitter"] = "not_called"
  /\ outcome' = [outcome EXCEPT !["emitter"] =
                   attention_with_pipeline_emitter(q, k, v, config)]
  /\ UNCHANGED <<ctor, raised, config, q, k, v, impl, save_residuals, axis, result,
                 error, trace, bench, kernelvars>>

NextEntry == CallAttention \/ CallEmitter

SpecEntry == InitEntry /\ [][NextEntry]_vars

\* Calls with well-formed tensors whose key/value sequence holds 0 to
\* MaxTiles + 1 blocks of 64 rows, an empty sequence included
InitDepth ==
  /\ impl = "none"
  /\ ctor = NoCall
  /\ raised = "none"
  /\ config \in {TuningConfig(64, bkv, steps, TRUE) :
                   bkv \in {64, 128}, steps \in 2 .. MaxSteps}
  /\ \E qt \in 1 .. MaxQTiles, blocks \in 0 .. (MaxTiles + 1) :
       /\ q = Tensor(<<1, 128 * qt, 1, 64>>, "float16")
       /\ k = Tensor(<<1, 64 * blocks, 1, 64>>, "float16")
       /\ v = Tensor(<<1, 64 * blocks, 1, 64>>, "float16")
  /\ outcome = NotCalled
  /\ save_residuals = FALSE
  /\ axis = AxisIndex(0, 0, 0)
  /\ error = NoError
  /\ trace = <<>>
  /\ bench = NoBench
  /\ InitKernel

SpecDepth == InitDepth /\ [][NextEntry]_vars

\* ------------------------------------------------------------------------
\* main: the benchmark loop
\* ------------------------------------------------------------------------
\* itertools.product((1,), (4096, 32768,), (64, 128, 256,), (True,))
Problem(seq_len, hd, usb) ==
  [batch_size |-> 1, seq_len |-> seq_len, head_dim |-> hd,
   use_schedule_barrier |-> usb]

problem_it ==
  <<Problem(4096, 64, TRUE), Problem(4096, 128, TRUE), Problem(4096, 256, TRUE),
    Problem(32768, 64, TRUE), Problem(32768, 128, TRUE), Problem(32768, 256, TRUE)>>

\* for block_kv in (256, 128, 64)
block_kvs == <<256, 128, 64>>

\* "exceeds available shared memory", word by word
shared_memory_text == <<"exceeds", "available", "shared", "memory">>

\* text in message: the words of text occur in message, adjacent and in order
contains(message, text) ==
  \E at \in 0 .. (Len(message) - Len(text)) :
    SubSeq(message, at + 1, at + Len(text)) = text

\* a handler that takes every ValueError for a shared-memory failure
recoverable_any_value_error(e) == e.type = "ValueError"

\* if "exceeds available shared memory" in e.args[0], inside the handler
recoverable(e) == contains(e.args, shared_memory_text)

\* messages of the errors a measured launch can end with
ErrorTexts ==
  {<<"kernel", "exceeds", "available", "shared", "memory">>,
   <<"exceeds", "available", "shared", "memory", "on", "device">>,
   <<"exceeds", "available", "memory">>,
   <<"kv_seq_len", "must", "be", "a", "multiple", "of", "block_kv">>}

\* how profiler.measure(attention_impl)(q, k, v) can end
MeasureOutcomes ==
  {NoException} \cup
  {Exception(type, text) : type \in {"ValueError", "NotImplementedError"},
                           text \in ErrorTexts}

\* the body of the try statement: the measured launch, then the comparison
\* with attention_reference for the shorter sequences
try_block(seq_len, measured, close) ==
  IF measured # NoException THEN measured
  ELSE IF seq_len < 32768 /\ ~close
         THEN Exception("AssertionError", <<"Not", "equal", "to", "tolerance">>)
         ELSE NoException

Attempt(bkv, e, compared) ==
  [block_kv |-> bkv, exc |-> e, compared |-> compared]

InitMain ==
  /\ impl = "none"
  /\ ctor = NoCall
  /\ raised = "none"
  /\ config = NoConfig
  /\ q = NoTensor
  /\ k = NoTensor
  /\ v = NoTensor
  /\ outcome = NotCalled
  /\ save_residuals = FALSE
  /\ axis = AxisIndex(0, 0, 0)
  /\ error = NoError
  /\ trace = <<>>
  /\ bench = Bench(1, 1, <<>>, "running", NoException, 0)
  /\ InitKernel

\* One pass of the loop over block_kv: the configuration is built outside
\* the try statement, the launch is measured and compared inside it, the
\* handler continues or re-raises, and a pass that ends normally breaks.
MeasureConfig ==
  /\ bench.status = "running"
  /\ LET problem == problem_it[bench.problem]
         bkv == block_kvs[bench.i]
         built == post_init(TuningConfig(64, bkv, 2, problem.use_schedule_barrier))
     IN  \E measured \in MeasureOutcomes, close \in BOOLEAN :
           LET e == try_block(problem.seq_len, measured, close)
               compared == measured = NoException /\ problem.seq_len < 32768
               log == Append(bench.log, Attempt(bkv, e, compared))
           IN  bench' =
                 IF built # "none"
                   THEN [bench EXCEPT !.status = "raised",
                                      !.exc = Exception("ValueError", <<built>>)]
                 ELSE IF e = NoException
                   THEN [bench EXCEPT !.log = log, !.status = "broke", !.best = bkv]
                 ELSE IF e.type = "ValueError" /\ recoverable(e)
                   THEN [bench EXCEPT !.log = log, !.i = bench.i + 1,
                                      !.status = IF bench.i < Len(block_kvs)
                                                   THEN "running" ELSE "exhausted"]
                 ELSE [bench EXCEPT !.log = log, !.status = "raised", !.exc = e]
  /\ UNCHANGED <<ctor, raised, config, q, k, v, outcome, impl, save_residuals, axis,
                 result, error, trace, kernelvars>>

\* The loop over block_kv is left: print the best runtime if there is one and
\* go on to the next problem, or return after the last one.
NextProblem ==
  /\ bench.status \in {"broke", "exhausted"}
  /\ bench' = IF bench.problem < Len(problem_it)
                THEN Bench(bench.problem + 1, 1, <<>>, "running", NoException, 0)
                ELSE [bench EXCEPT !.status = "returned"]
  /\ UNCHANGED <<ctor, raised, config, q, k, v, outcome, impl, save_residuals, axis,
                 result, error, trace, kernelvars>>

NextMain == MeasureConfig \/ NextProblem

SpecMain == InitMain /\ [][NextMain]_vars

\* ------------------------------------------------------------------------
\* Asynchronous transfers (copy_gmem_to_smem and its completion)
\* ------------------------------------------------------------------------
Transfer(kind, slot, tile) == [kind |-> kind, slot |-> slot, tile |-> tile]

\* The hardware finishes a transfer: the destination holds the whole tile
\* and the transfer's barrier receives its arrival.
TransferComplete ==
  \E x \in tma :
    /\ x.kind \in {"k", "v", "q"}
    /\ tma' = tma \ {x}
    /\ CASE x.kind = "k" ->
              /\ k_smem' = [k_smem EXCEPT ![x.slot] = [tile |-> x.tile, full |-> TRUE]]
              /\ k_barriers' = [k_barriers EXCEPT ![x.slot] = barrier_arrive(@)]
              /\ UNCHANGED <<v_smem, qo_smem, v_barriers, q_barriers>>
         [] x.kind = "v" ->
              /\ v_smem' = [v_smem EXCEPT ![x.slot] = [tile |-> x.tile, full |-> TRUE]]
              /\ v_barriers' = [v_barriers EXCEPT ![x.slot] = barrier_arrive(@)]
              /\ UNCHANGED <<k_smem, qo_smem, k_barriers, q_barriers>>
         [] x.kind = "q" ->
              /\ qo_smem' = [qo_smem EXCEPT ![x.slot] =
                               [state |-> "query", acc |-> <<>>, l_i |-> <<>>]]
              /\ q_barriers' = [q_barriers EXCEPT ![x.slot] = barrier_arrive(@)]
              /\ UNCHANGED <<k_smem, v_smem, k_barriers, v_barriers>>
    /\ UNCHANGED <<cfgvars, result, lsevars, pc, kv_step, consvars, schedule_barrier, waits,
                   statevars, histvars>>

\* The hardware finishes a write-back (copy_smem_to_gmem): the rows of the
\* staging buffer are in off-chip memory.
WriteBackComplete ==
  \E x \in tma :
    /\ x.kind \in {"o", "lse"}
    /\ tma' = tma \ {x}
    /\ out_ref' = IF x.kind = "o"
                   THEN [out_ref EXCEPT ![x.slot] =
                           Append(@, [acc |-> qo_smem[x.slot].acc,
                                      l_i |-> qo_smem[x.slot].l_i])]
                   ELSE out_ref
    /\ UNCHANGED <<cfgvars, result, lsevars, pc, kv_step, k_smem, v_smem, qo_smem, readyvars, consvars,
                   schedule_barrier, waits, mma, qk, carry, histvars>>

Goto(wg, label) == pc' = [pc EXCEPT ![wg] = label]

\* what a compute group does at a step of its loop, and how many phases of
\* the schedule barrier are complete when it does it
Event(op, step) == [op |-> op, step |-> step, phase |-> schedule_barrier.phase]

Record(g, op) == timeline' = [timeline EXCEPT ![g] = Append(@, Event(op, kv_step[g]))]

\* perform_schedule_barrier, first half: barrier_arrive(schedule_barrier)
ScheduleArrive(g, from, to) ==
  /\ pc[g] = from
  /\ schedule_barrier' = barrier_arrive(schedule_barrier)
  /\ Goto(g, to)
  /\ Record(g, "arrive")
  /\ UNCHANGED <<cfgvars, result, lsevars, kv_step, bufvars, readyvars, consvars, waits,
                 statevars, issued, signals>>

\* perform_schedule_barrier, second half: barrier_wait(schedule_barrier)
ScheduleWait(g, from, to) ==
  /\ pc[g] = from
  /\ barrier_ready(g, <<"s", 0>>, schedule_barrier)
  /\ barrier_wait(g, <<"s", 0>>)
  /\ Goto(g, to)
  /\ Record(g, "wait")
  /\ UNCHANGED <<cfgvars, result, lsevars, kv_step, bufvars, readyvars, consvars, schedule_barrier,
                 statevars, issued, signals>>

\* ------------------------------------------------------------------------
\* attention: compute warpgroups (wg_idx < 2)
\* ------------------------------------------------------------------------
slot_of(step) == step % max_concurrent_steps

\* q_seq_base without the offset of the compute group
q_seq_base_of_tile(g) == axis.q_seq * (2 * block_q)

\* q_seq_base = lax.axis_index("q_seq") * (2 * block_q) + wg_idx * block_q
q_seq_base(g) == axis.q_seq * (2 * block_q) + g * block_q

\* num_q_tiles, rem = divmod(q_seq_len, block_q * 2)
num_q_tiles == q_seq_len \div (block_q * 2)

\* grid=(batch_size, num_q_tiles, num_q_heads), grid_names=("batch", "q_seq", "heads")
Grid ==
  {AxisIndex(b, i, h) : b \in 0 .. (q.shape[1] - 1), i \in 0 .. (num_q_tiles - 1),
                        h \in 0 .. (q.shape[3] - 1)}

\* one asynchronous copy between a staging buffer of group wg and block_q
\* rows of an off-chip tensor: ref.at[index] with pl.ds(base, block_q) in
\* the place of the sequence dimension
Access(ref, wg, index) == [ref |-> ref, wg |-> wg, index |-> index]

\* q_ref / out_ref .at[batch, pl.ds(q_seq_base, block_q), q_head]
RowsIndex(g) == <<axis.batch, q_seq_base(g), axis.heads>>

\* lse_ref.at[batch, q_head, pl.ds(q_seq_base, block_q)]
LseIndex(g) == <<axis.batch, axis.heads, q_seq_base(g)>>

\* copy_gmem_to_smem(q_ref..., qo_smem, q_barriers.at[wg_idx])
QCopy(g) ==
  /\ pc[g] = "q_copy"
  /\ tma' = tma \cup {Transfer("q", g, g)}
  /\ qo_smem' = [qo_smem EXCEPT ![g] = [state |-> "loading", acc |-> <<>>, l_i |-> <<>>]]
  /\ accesses' = [accesses EXCEPT ![g] = Append(@, Access("q_ref", g, RowsIndex(g)))]
  /\ Goto(g, "q_wait")
  /\ UNCHANGED <<cfgvars, result, lse_smem2, kv_step, k_smem, v_smem, readyvars, consvars,
                 schedule_barrier, waits, statevars, histvars>>

\* barrier_wait(q_barriers.at[wg_idx]); m_i, l_i, acc initialised
QWait(g) ==
  /\ pc[g] = "q_wait"
  /\ barrier_ready(g, <<"q", g>>, q_barriers[g])
  /\ barrier_wait(g, <<"q", g>>)
  /\ carry' = [carry EXCEPT ![g] = InitCarry]
  /\ Goto(g, "k_wait0")
  /\ UNCHANGED <<cfgvars, result, lsevars, kv_step, bufvars, readyvars, consvars, schedule_barrier,
                 mma, qk, out_ref, histvars>>

\* barrier_wait(k_barriers.at[0])
KWaitFirst(g) ==
  /\ pc[g] = "k_wait0"
  /\ barrier_ready(g, <<"k", 0>>, k_barriers[0])
  /\ barrier_wait(g, <<"k", 0>>)
  /\ Goto(g, IF g = 1 THEN "pre_arrive" ELSE "qk_issue")
  /\ UNCHANGED <<cfgvars, result, lsevars, kv_step, bufvars, readyvars, consvars, schedule_barrier,
                 statevars, histvars>>

\* pl.when(wg_idx == 1)(perform_schedule_barrier)
PreLoopArrive(g) == ScheduleArrive(g, "pre_arrive", "pre_wait")

\* PreLoopWait without the wait: group 1 enters the loop at once
PreLoopWaitSkipped(g) ==
  /\ pc[g] = "pre_wait"
  /\ Goto(g, "qk_issue")
  /\ UNCHANGED <<cfgvars, result, lsevars, kv_step, bufvars, readyvars, consvars, schedule_barrier,
                 waits, statevars, histvars>>

PreLoopWait(g) == ScheduleWait(g, "pre_wait", "qk_issue")

\* compute_qk: plgpu.wgmma(acc_ref, qo_smem, k_smem.at[slot]^T)
ComputeQK(g) ==
  /\ pc[g] = "qk_issue"
  /\ mma' = [mma EXCEPT ![g] =
               [kind |-> "qk", slot |-> slot_of(kv_step[g]), q |-> qo_smem[g].state,
                s |-> NoScores, rhs |-> k_smem[slot_of(kv_step[g])]]]
  /\ Goto(g, "qk_arrive")
  /\ Record(g, "qk")
  /\ UNCHANGED <<cfgvars, result, lsevars, kv_step, bufvars, readyvars, consvars, schedule_barrier,
                 waits, qk, carry, out_ref, issued, signals>>

\* QKWait without the wait: the group goes on to read the accumulator
QKWaitSkipped(g) ==
  /\ pc[g] = "qk_swait"
  /\ Goto(g, "qk_read")
  /\ UNCHANGED <<cfgvars, result, lsevars, kv_step, bufvars, readyvars, consvars, schedule_barrier,
                 waits, statevars, histvars>>

\* compute_qk: perform_schedule_barrier()
QKArrive(g) == ScheduleArrive(g, "qk_arrive", "qk_swait")

QKWait(g) == ScheduleWait(g, "qk_swait", "qk_read")

\* compute_qk: return acc_ref[...]; the score matmul is complete
QKRead(g) ==
  /\ pc[g] = "qk_read"
  /\ qk' = [qk EXCEPT ![g] = Scores(kv_step[g], mma[g].q, mma[g].rhs)]
  /\ mma' = [mma EXCEPT ![g] = NoMma]
  /\ Goto(g, "kc_arrive")
  /\ UNCHANGED <<cfgvars, result, lsevars, kv_step, bufvars, readyvars, consvars, schedule_barrier,
                 waits, carry, out_ref, histvars>>

\* barrier_arrive(k_consumed_barriers.at[slot])
KConsumed(g) ==
  /\ pc[g] = "kc_arrive"
  /\ k_consumed_barriers' =
       [k_consumed_barriers EXCEPT ![slot_of(kv_step[g])] = barrier_arrive(@)]
  /\ signals' = [signals EXCEPT ![g] = Append(@, <<"k", kv_step[g]>>)]
  /\ Goto(g, "softmax")
  /\ UNCHANGED <<cfgvars, result, lsevars, kv_step, bufvars, readyvars, v_consumed_barriers,
                 schedule_barrier, waits, statevars, issued, timeline>>

\* l_i += p.sum(axis=1)
RowSum(c, s) == [c EXCEPT !.l_i = Append(@, Op("rowsum", s, EmptySlot))]

\* m_ij = max(m_i, rowmax(qk)); alpha = exp2(m_i - m_ij); m_i = m_ij;
\* p = exp2(qk - m_ij); acc *= alpha; l_i *= alpha
Rescale(c, s) ==
  [acc |-> Append(c.acc, Op("rescale", s, EmptySlot)),
   m_i |-> Append(c.m_i, Op("max", s, EmptySlot)),
   l_i |-> Append(c.l_i, Op("rescale", s, EmptySlot))]

\* the softmax block; with head_dim <= 128 the row sums are added here
Softmax(g) ==
  /\ pc[g] = "softmax"
  /\ carry' = [carry EXCEPT ![g] =
                 IF head_dim <= 128 THEN RowSum(Rescale(@, qk[g]), qk[g])
                                    ELSE Rescale(@, qk[g])]
  /\ Goto(g, "sm_arrive")
  /\ UNCHANGED <<cfgvars, result, lsevars, kv_step, bufvars, readyvars, consvars, schedule_barrier,
                 waits, mma, qk, out_ref, histvars>>

\* end_softmax_barriers: barrier_arrive(schedule_barrier)
EndSoftmaxArrive(g) == ScheduleArrive(g, "sm_arrive", "v_wait")

\* VWait without the wait on the value-ready barrier
VWaitSkipped(g) ==
  /\ pc[g] = "v_wait"
  /\ Goto(g, "sm_wait")
  /\ UNCHANGED <<cfgvars, result, lsevars, kv_step, bufvars, readyvars, consvars, schedule_barrier,
                 waits, statevars, histvars>>

\* end_softmax_barriers: barrier_wait(v_barriers.at[slot])
VWait(g) ==
  /\ pc[g] = "v_wait"
  /\ barrier_ready(g, <<"v", slot_of(kv_step[g])>>, v_barriers[slot_of(kv_step[g])])
  /\ barrier_wait(g, <<"v", slot_of(kv_step[g])>>)
  /\ Goto(g, "sm_wait")
  /\ UNCHANGED <<cfgvars, result, lsevars, kv_step, bufvars, readyvars, consvars, schedule_barrier,
                 statevars, histvars>>

\* EndSoftmaxWait with the late row sum of head_dim > 128 left out
EndSoftmaxWaitNoRowSum(g) == ScheduleWait(g, "sm_wait", "pv_issue")

\* end_softmax_barriers: barrier_wait(schedule_barrier)
EndSoftmaxWait(g) ==
  ScheduleWait(g, "sm_wait", IF head_dim <= 128 THEN "pv_issue" ELSE "l_add")

\* head_dim > 128: l_i += p.sum(axis=1) after the barriers
LateRowSum(g) ==
  /\ pc[g] = "l_add"
  /\ carry' = [carry EXCEPT ![g] = RowSum(@, qk[g])]
  /\ Goto(g, "pv_issue")
  /\ UNCHANGED <<cfgvars, result, lsevars, kv_step, bufvars, readyvars, consvars, schedule_barrier,
                 waits, mma, qk, out_ref, histvars>>

\* ComputePV without the guard wait_step < kv_seq_len // block_kv: the
\* group waits for a next key tile after the last step as well
ComputePVAlwaysWait(g) ==
  /\ pc[g] = "pv_issue"
  /\ mma' = [mma EXCEPT ![g] =
               [kind |-> "pv", slot |-> slot_of(kv_step[g]), q |-> "none",
                s |-> qk[g], rhs |-> v_smem[slot_of(kv_step[g])]]]
  /\ Goto(g, "k_wait")
  /\ Record(g, "pv")
  /\ UNCHANGED <<cfgvars, result, lsevars, kv_step, bufvars, readyvars, consvars, schedule_barrier,
                 waits, qk, carry, out_ref, issued, signals>>

\* compute_pv: plgpu.wgmma(acc_ref, p16, v_smem.at[slot])
ComputePV(g) ==
  /\ pc[g] = "pv_issue"
  /\ mma' = [mma EXCEPT ![g] =
               [kind |-> "pv", slot |-> slot_of(kv_step[g]), q |-> "none",
                s |-> qk[g], rhs |-> v_smem[slot_of(kv_step[g])]]]
  /\ Goto(g, IF kv_step[g] + 1 < num_kv_tiles THEN "k_wait" ELSE "pv_done")
  /\ Record(g, "pv")
  /\ UNCHANGED <<cfgvars, result, lsevars, kv_step, bufvars, readyvars, consvars, schedule_barrier,
                 waits, qk, carry, out_ref, issued, signals>>

\* compute_pv: barrier_wait(k_barriers.at[wait_slot]) when wait_step < n
KWaitNext(g) ==
  /\ pc[g] = "k_wait"
  /\ barrier_ready(g, <<"k", slot_of(kv_step[g] + 1)>>, k_barriers[slot_of(kv_step[g] + 1)])
  /\ barrier_wait(g, <<"k", slot_of(kv_step[g] + 1)>>)
  /\ Goto(g, "pv_done")
  /\ UNCHANGED <<cfgvars, result, lsevars, kv_step, bufvars, readyvars, consvars, schedule_barrier,
                 statevars, histvars>>

\* PVDone that drops the accumulator returned by run_state
PVDoneDropsAcc(g) ==
  /\ pc[g] = "pv_done"
  /\ mma' = [mma EXCEPT ![g] = NoMma]
  /\ Goto(g, "vc_arrive")
  /\ UNCHANGED <<cfgvars, result, lsevars, kv_step, bufvars, readyvars, consvars,
                 schedule_barrier, waits, qk, carry, out_ref, histvars>>

\* acc = run_state(compute_pv)(ACC.init(acc)): the value matmul is complete
PVDone(g) ==
  /\ pc[g] = "pv_done"
  /\ carry' = [carry EXCEPT ![g].acc = Append(@, Op("pv", mma[g].s, mma[g].rhs))]
  /\ mma' = [mma EXCEPT ![g] = NoMma]
  /\ Goto(g, "vc_arrive")
  /\ UNCHANGED <<cfgvars, result, lsevars, kv_step, bufvars, readyvars, consvars, schedule_barrier,
                 waits, qk, out_ref, histvars>>

\* barrier_arrive(v_consumed_barriers.at[slot]); next iteration of fori_loop
VConsumed(g) ==
  /\ pc[g] = "vc_arrive"
  /\ v_consumed_barriers' =
       [v_consumed_barriers EXCEPT ![slot_of(kv_step[g])] = barrier_arrive(@)]
  /\ signals' = [signals EXCEPT ![g] = Append(@, <<"v", kv_step[g]>>)]
  /\ kv_step' = [kv_step EXCEPT ![g] = @ + 1]
  /\ Goto(g, IF kv_step[g] + 1 < num_kv_tiles THEN "qk_issue"
              ELSE IF g = 0 THEN "post_arrive" ELSE "epilogue")
  /\ UNCHANGED <<cfgvars, result, lsevars, bufvars, readyvars, k_consumed_barriers,
                 schedule_barrier, waits, statevars, issued, timeline>>

\* pl.when(wg_idx == 0)(perform_schedule_barrier)
PostLoopArrive(g) == ScheduleArrive(g, "post_arrive", "post_wait")

PostLoopWait(g) == ScheduleWait(g, "post_wait", "epilogue")

\* acc /= l_i; qo_smem[...] = acc.astype(dtype)
Epilogue(g) ==
  /\ pc[g] = "epilogue"
  /\ qo_smem' = [qo_smem EXCEPT ![g] =
                   [state |-> "output", acc |-> carry[g].acc, l_i |-> carry[g].l_i]]
  /\ lse_smem2' = IF lse_smem2[g].state # "none"
                     THEN [lse_smem2 EXCEPT ![g] =
                             LseStage("written", carry[g].m_i, carry[g].l_i)]
                     ELSE lse_smem2
  /\ Goto(g, "commit")
  /\ UNCHANGED <<cfgvars, result, accesses, kv_step, k_smem, v_smem, tma, readyvars, consvars,
                 schedule_barrier, waits, statevars, histvars>>

\* plgpu.commit_smem()
CommitSmem(g) ==
  /\ pc[g] = "commit"
  /\ qo_smem' = [qo_smem EXCEPT ![g].state = "committed"]
  /\ lse_smem2' = IF lse_smem2[g].state # "none"
                     THEN [lse_smem2 EXCEPT ![g].state = "committed"]
                     ELSE lse_smem2
  /\ Goto(g, "copy_out")
  /\ UNCHANGED <<cfgvars, result, accesses, kv_step, k_smem, v_smem, tma, readyvars, consvars,
                 schedule_barrier, waits, statevars, histvars>>

\* CopyOut without the copy of the log-sum-exp rows
CopyOutNoLse(g) ==
  /\ pc[g] = "copy_out"
  /\ tma' = tma \cup {Transfer("o", g, g)}
  /\ accesses' = [accesses EXCEPT ![g] = Append(@, Access("out_ref", g, RowsIndex(g)))]
  /\ Goto(g, "drain")
  /\ UNCHANGED <<cfgvars, result, lse_smem2, kv_step, k_smem, v_smem, qo_smem, readyvars,
                 consvars, schedule_barrier, waits, statevars, histvars>>

\* copy_smem_to_gmem(qo_smem, out_ref.at[batch, ds(q_seq_base, block_q), q_head]);
\* if lse_smem is not None: copy_smem_to_gmem(lse_smem, lse_ref.at[...])
CopyOut(g) ==
  /\ pc[g] = "copy_out"
  /\ IF lse_smem2[g].state # "none"
       THEN /\ tma' = tma \cup {Transfer("o", g, g), Transfer("lse", g, g)}
            /\ accesses' = [accesses EXCEPT ![g] =
                              @ \o << Access("out_ref", g, RowsIndex(g)),
                                      Access("lse_ref", g, LseIndex(g)) >>]
       ELSE /\ tma' = tma \cup {Transfer("o", g, g)}
            /\ accesses' = [accesses EXCEPT ![g] =
                              Append(@, Access("out_ref", g, RowsIndex(g)))]
  /\ Goto(g, "drain")
  /\ UNCHANGED <<cfgvars, result, lse_smem2, kv_step, k_smem, v_smem, qo_smem, readyvars, consvars,
                 schedule_barrier, waits, statevars, histvars>>

\* WaitDrain that does not wait
WaitDrainSkipped(g) ==
  /\ pc[g] = "drain"
  /\ Goto(g, "done")
  /\ UNCHANGED <<cfgvars, result, lsevars, kv_step, bufvars, readyvars, consvars,
                 schedule_barrier, waits, statevars, histvars>>

\* plgpu.wait_smem_to_gmem(0)
WaitDrain(g) ==
  /\ pc[g] = "drain"
  /\ ~ \E x \in tma : x.kind \in {"o", "lse"} /\ x.slot = g
  /\ Goto(g, "done")
  /\ UNCHANGED <<cfgvars, result, lsevars, kv_step, bufvars, readyvars, consvars,
                 schedule_barrier, waits, statevars, histvars>>

ComputeStep(g) ==
  \/ QCopy(g) \/ QWait(g) \/ KWaitFirst(g)
  \/ PreLoopArrive(g) \/ PreLoopWait(g)
  \/ ComputeQK(g) \/ QKArrive(g) \/ QKWait(g) \/ QKRead(g) \/ KConsumed(g)
  \/ Softmax(g) \/ EndSoftmaxArrive(g) \/ VWait(g) \/ EndSoftmaxWait(g)
  \/ LateRowSum(g)
  \/ ComputePV(g) \/ KWaitNext(g) \/ PVDone(g) \/ VConsumed(g)
  \/ PostLoopArrive(g) \/ PostLoopWait(g)
  \/ Epilogue(g) \/ CommitSmem(g) \/ CopyOut(g) \/ WaitDrain(g)

\* ------------------------------------------------------------------------
\* attention: memory warpgroup (wg_idx == 2)
\* ------------------------------------------------------------------------
\* for i in range(max_concurrent_steps): copy_gmem_to_smem(k_ref.at[s], k_smem.at[i], ...)
PrimeK ==
  /\ pc[MEMORY_WG] = "prime_k"
  /\ LET i == kv_step[MEMORY_WG] IN
       /\ tma' = tma \cup {Transfer("k", i, i)}
       /\ k_smem' = [k_smem EXCEPT ![i] = [tile |-> i, full |-> FALSE]]
       /\ issued' = Append(issued, Transfer("k", i, i))
  /\ Goto(MEMORY_WG, "prime_v")
  /\ UNCHANGED <<cfgvars, result, lsevars, kv_step, v_smem, qo_smem, readyvars, consvars,
                 schedule_barrier, waits, statevars, signals, timeline>>

\* ... copy_gmem_to_smem(v_ref.at[s], v_smem.at[i], v_barriers.at[i])
PrimeV ==
  /\ pc[MEMORY_WG] = "prime_v"
  /\ LET i == kv_step[MEMORY_WG] IN
       /\ tma' = tma \cup {Transfer("v", i, i)}
       /\ v_smem' = [v_smem EXCEPT ![i] = [tile |-> i, full |-> FALSE]]
       /\ issued' = Append(issued, Transfer("v", i, i))
       /\ IF i + 1 < max_concurrent_steps
            THEN /\ kv_step' = [kv_step EXCEPT ![MEMORY_WG] = i + 1]
                 /\ Goto(MEMORY_WG, "prime_k")
            ELSE /\ kv_step' = [kv_step EXCEPT ![MEMORY_WG] = 0]
                 /\ Goto(MEMORY_WG, IF 0 < num_kv_tiles - max_concurrent_steps
                                      THEN "kc_wait" ELSE "done")
  /\ UNCHANGED <<cfgvars, result, lsevars, k_smem, qo_smem, readyvars, consvars,
                 schedule_barrier, waits, statevars, signals, timeline>>

\* MemKWait without the wait on the key-consumed barrier
MemKWaitSkipped ==
  /\ pc[MEMORY_WG] = "kc_wait"
  /\ Goto(MEMORY_WG, "k_copy")
  /\ UNCHANGED <<cfgvars, result, lsevars, kv_step, bufvars, readyvars, consvars, schedule_barrier,
                 waits, statevars, histvars>>

\* kv_loop: barrier_wait(k_consumed_barriers.at[tma_slot])
MemKWait ==
  /\ pc[MEMORY_WG] = "kc_wait"
  /\ LET tma_slot == slot_of(kv_step[MEMORY_WG]) IN
       /\ barrier_ready(MEMORY_WG, <<"kc", tma_slot>>, k_consumed_barriers[tma_slot])
       /\ barrier_wait(MEMORY_WG, <<"kc", tma_slot>>)
  /\ Goto(MEMORY_WG, "k_copy")
  /\ UNCHANGED <<cfgvars, result, lsevars, kv_step, bufvars, readyvars, consvars, schedule_barrier,
                 statevars, histvars>>

\* MemKCopy with tma_step = kv_step + 1
MemKCopyNextStep ==
  /\ pc[MEMORY_WG] = "k_copy"
  /\ LET tma_step == kv_step[MEMORY_WG] + 1
         tma_slot == slot_of(kv_step[MEMORY_WG]) IN
       /\ tma' = tma \cup {Transfer("k", tma_slot, tma_step)}
       /\ k_smem' = [k_smem EXCEPT ![tma_slot] = [tile |-> tma_step, full |-> FALSE]]
       /\ issued' = Append(issued, Transfer("k", tma_slot, tma_step))
  /\ Goto(MEMORY_WG, "vc_wait")
  /\ UNCHANGED <<cfgvars, result, lsevars, kv_step, v_smem, qo_smem, readyvars, consvars,
                 schedule_barrier, waits, statevars, signals, timeline>>

\* kv_loop: copy_gmem_to_smem(k_ref.at[s], k_smem.at[tma_slot], k_barriers.at[tma_slot])
MemKCopy ==
  /\ pc[MEMORY_WG] = "k_copy"
  /\ LET tma_step == kv_step[MEMORY_WG] + max_concurrent_steps
         tma_slot == slot_of(kv_step[MEMORY_WG]) IN
       /\ tma' = tma \cup {Transfer("k", tma_slot, tma_step)}
       /\ k_smem' = [k_smem EXCEPT ![tma_slot] = [tile |-> tma_step, full |-> FALSE]]
       /\ issued' = Append(issued, Transfer("k", tma_slot, tma_step))
  /\ Goto(MEMORY_WG, "vc_wait")
  /\ UNCHANGED <<cfgvars, result, lsevars, kv_step, v_smem, qo_smem, readyvars, consvars,
                 schedule_barrier, waits, statevars, signals, timeline>>

\* kv_loop: barrier_wait(v_consumed_barriers.at[tma_slot])
MemVWait ==
  /\ pc[MEMORY_WG] = "vc_wait"
  /\ LET tma_slot == slot_of(kv_step[MEMORY_WG]) IN
       /\ barrier_ready(MEMORY_WG, <<"vc", tma_slot>>, v_consumed_barriers[tma_slot])
       /\ barrier_wait(MEMORY_WG, <<"vc", tma_slot>>)
  /\ Goto(MEMORY_WG, "v_copy")
  /\ UNCHANGED <<cfgvars, result, lsevars, kv_step, bufvars, readyvars, consvars, schedule_barrier,
                 statevars, histvars>>

\* kv_loop: copy_gmem_to_smem(v_ref.at[s], v_smem.at[tma_slot], v_barriers.at[tma_slot])
MemVCopy ==
  /\ pc[MEMORY_WG] = "v_copy"
  /\ LET tma_step == kv_step[MEMORY_WG] + max_concurrent_steps
         tma_slot == slot_of(kv_step[MEMORY_WG]) IN
       /\ tma' = tma \cup {Transfer("v", tma_slot, tma_step)}
       /\ v_smem' = [v_smem EXCEPT ![tma_slot] = [tile |-> tma_step, full |-> FALSE]]
       /\ issued' = Append(issued, Transfer("v", tma_slot, tma_step))
  /\ kv_step' = [kv_step EXCEPT ![MEMORY_WG] = @ + 1]
  /\ Goto(MEMORY_WG, IF kv_step[MEMORY_WG] + 1 < num_kv_tiles - max_concurrent_steps
                       THEN "kc_wait" ELSE "done")
  /\ UNCHANGED <<cfgvars, result, lsevars, k_smem, qo_smem, readyvars, consvars,
                 schedule_barrier, waits, statevars, signals, timeline>>

MemoryStep == PrimeK \/ PrimeV \/ MemKWait \/ MemKCopy \/ MemVWait \/ MemVCopy

\* ------------------------------------------------------------------------
\* attention_with_pipeline_emitter: compute threads (_compute_thread is the
\* carry coroutine, kv_pipeline the per-step body)
\* ------------------------------------------------------------------------
\* m_i, l_i, acc initialised; copy_gmem_to_smem(q_ref..., qo_smem, q_barriers.at[wg_idx])
EQCopy(g) ==
  /\ pc[g] = "e_q_copy"
  /\ carry' = [carry EXCEPT ![g] = InitCarry]
  /\ tma' = tma \cup {Transfer("q", g, g)}
  /\ qo_smem' = [qo_smem EXCEPT ![g] = [state |-> "loading", acc |-> <<>>, l_i |-> <<>>]]
  /\ accesses' = [accesses EXCEPT ![g] = Append(@, Access("q_ref", g, RowsIndex(g)))]
  /\ Goto(g, "e_q_wait")
  /\ UNCHANGED <<cfgvars, result, lse_smem2, kv_step, k_smem, v_smem, readyvars, consvars,
                 schedule_barrier, waits, mma, qk, out_ref, histvars>>

\* barrier_wait(q_barriers.at[wg_idx]); then pl.when(wg_idx == 1)(perform_schedule_barrier)
\* and the yield of the initial carry to the pipeline driver
EQWait(g) ==
  /\ pc[g] = "e_q_wait"
  /\ barrier_ready(g, <<"q", g>>, q_barriers[g])
  /\ barrier_wait(g, <<"q", g>>)
  /\ Goto(g, IF g = 1 /\ use_schedule_barrier THEN "e_pre_arrive" ELSE "d_k_wait")
  /\ UNCHANGED <<cfgvars, result, lsevars, kv_step, bufvars, readyvars, consvars, schedule_barrier,
                 statevars, histvars>>

EPreLoopArrive(g) == ScheduleArrive(g, "e_pre_arrive", "e_pre_wait")

EPreLoopWait(g) == ScheduleWait(g, "e_pre_wait", "d_k_wait")

\* pipeline driver, consumer side: before the body of a step runs, wait for
\* the key transfer into the step's slot
DriverKWait(g) ==
  /\ pc[g] = "d_k_wait"
  /\ barrier_ready(g, <<"k", slot_of(kv_step[g])>>, k_barriers[slot_of(kv_step[g])])
  /\ barrier_wait(g, <<"k", slot_of(kv_step[g])>>)
  /\ Goto(g, "d_v_wait")
  /\ UNCHANGED <<cfgvars, result, lsevars, kv_step, bufvars, readyvars, consvars, schedule_barrier,
                 statevars, histvars>>

\* pipeline driver, consumer side: ... and for the value transfer
DriverVWait(g) ==
  /\ pc[g] = "d_v_wait"
  /\ barrier_ready(g, <<"v", slot_of(kv_step[g])>>, v_barriers[slot_of(kv_step[g])])
  /\ barrier_wait(g, <<"v", slot_of(kv_step[g])>>)
  /\ Goto(g, "e_qk_issue")
  /\ UNCHANGED <<cfgvars, result, lsevars, kv_step, bufvars, readyvars, consvars, schedule_barrier,
                 statevars, histvars>>

\* EComputeQK followed by the schedule barrier whatever the flag says
EComputeQKAlwaysBarrier(g) ==
  /\ pc[g] = "e_qk_issue"
  /\ mma' = [mma EXCEPT ![g] =
               [kind |-> "qk", slot |-> slot_of(kv_step[g]), q |-> qo_smem[g].state,
                s |-> NoScores, rhs |-> k_smem[slot_of(kv_step[g])]]]
  /\ Goto(g, "e_qk_arrive")
  /\ Record(g, "qk")
  /\ UNCHANGED <<cfgvars, result, lsevars, kv_step, bufvars, readyvars, consvars, schedule_barrier,
                 waits, qk, carry, out_ref, issued, signals>>

\* kv_pipeline.compute_qk: plgpu.wgmma(acc_ref, qo_smem, k_smem^T)
EComputeQK(g) ==
  /\ pc[g] = "e_qk_issue"
  /\ mma' = [mma EXCEPT ![g] =
               [kind |-> "qk", slot |-> slot_of(kv_step[g]), q |-> qo_smem[g].state,
                s |-> NoScores, rhs |-> k_smem[slot_of(kv_step[g])]]]
  /\ Goto(g, IF use_schedule_barrier THEN "e_qk_arrive" ELSE "e_qk_read")
  /\ Record(g, "qk")
  /\ UNCHANGED <<cfgvars, result, lsevars, kv_step, bufvars, readyvars, consvars, schedule_barrier,
                 waits, qk, carry, out_ref, issued, signals>>

\* kv_pipeline.compute_qk: perform_schedule_barrier()
EQKArrive(g) == ScheduleArrive(g, "e_qk_arrive", "e_qk_swait")

EQKWait(g) == ScheduleWait(g, "e_qk_swait", "e_qk_read")

\* kv_pipeline.compute_qk: return acc_ref[...]
EQKRead(g) ==
  /\ pc[g] = "e_qk_read"
  /\ qk' = [qk EXCEPT ![g] = Scores(kv_step[g], mma[g].q, mma[g].rhs)]
  /\ mma' = [mma EXCEPT ![g] = NoMma]
  /\ Goto(g, "e_kc_arrive")
  /\ UNCHANGED <<cfgvars, result, lsevars, kv_step, bufvars, readyvars, consvars, schedule_barrier,
                 waits, carry, out_ref, histvars>>

\* barrier_arrive(k_consumed_barrier)
EKConsumed(g) ==
  /\ pc[g] = "e_kc_arrive"
  /\ k_consumed_barriers' =
       [k_consumed_barriers EXCEPT ![slot_of(kv_step[g])] = barrier_arrive(@)]
  /\ signals' = [signals EXCEPT ![g] = Append(@, <<"k", kv_step[g]>>)]
  /\ Goto(g, "e_softmax")
  /\ UNCHANGED <<cfgvars, result, lsevars, kv_step, bufvars, readyvars, v_consumed_barriers,
                 schedule_barrier, waits, statevars, issued, timeline>>

\* ESoftmax without l_i *= alpha
ESoftmaxNoRescaleOfL(g) ==
  /\ pc[g] = "e_softmax"
  /\ carry' = [carry EXCEPT ![g] = [Rescale(@, qk[g]) EXCEPT !.l_i = carry[g].l_i]]
  /\ Goto(g, IF use_schedule_barrier THEN "e_sm_arrive" ELSE "e_l_add")
  /\ UNCHANGED <<cfgvars, result, lsevars, kv_step, bufvars, readyvars, consvars, schedule_barrier,
                 waits, mma, qk, out_ref, histvars>>

\* the softmax block of kv_pipeline up to p16 = p.astype(dtype)
ESoftmax(g) ==
  /\ pc[g] = "e_softmax"
  /\ carry' = [carry EXCEPT ![g] = Rescale(@, qk[g])]
  /\ Goto(g, IF use_schedule_barrier THEN "e_sm_arrive" ELSE "e_l_add")
  /\ UNCHANGED <<cfgvars, result, lsevars, kv_step, bufvars, readyvars, consvars, schedule_barrier,
                 waits, mma, qk, out_ref, histvars>>

\* kv_pipeline: perform_schedule_barrier() after the softmax block
ESoftmaxArrive(g) == ScheduleArrive(g, "e_sm_arrive", "e_sm_wait")

ESoftmaxWait(g) == ScheduleWait(g, "e_sm_wait", "e_l_add")

\* l_i += p.sum(axis=1)
ELateRowSum(g) ==
  /\ pc[g] = "e_l_add"
  /\ carry' = [carry EXCEPT ![g] = RowSum(@, qk[g])]
  /\ Goto(g, "e_pv_issue")
  /\ UNCHANGED <<cfgvars, result, lsevars, kv_step, bufvars, readyvars, consvars, schedule_barrier,
                 waits, mma, qk, out_ref, histvars>>

\* kv_pipeline.compute_pv: plgpu.wgmma(acc_ref, p16, v_smem)
EComputePV(g) ==
  /\ pc[g] = "e_pv_issue"
  /\ mma' = [mma EXCEPT ![g] =
               [kind |-> "pv", slot |-> slot_of(kv_step[g]), q |-> "none",
                s |-> qk[g], rhs |-> v_smem[slot_of(kv_step[g])]]]
  /\ Goto(g, "e_pv_done")
  /\ Record(g, "pv")
  /\ UNCHANGED <<cfgvars, result, lsevars, kv_step, bufvars, readyvars, consvars, schedule_barrier,
                 waits, qk, carry, out_ref, issued, signals>>

\* acc = run_state(compute_pv)(ACC.init(acc))
EPVDone(g) ==
  /\ pc[g] = "e_pv_done"
  /\ carry' = [carry EXCEPT ![g].acc = Append(@, Op("pv", mma[g].s, mma[g].rhs))]
  /\ mma' = [mma EXCEPT ![g] = NoMma]
  /\ Goto(g, "e_vc_arrive")
  /\ UNCHANGED <<cfgvars, result, lsevars, kv_step, bufvars, readyvars, consvars, schedule_barrier,
                 waits, qk, out_ref, histvars>>

\* barrier_arrive(v_consumed_barrier); return acc, m_i, l_i to the driver,
\* which runs the next step or, after the last one, resumes the coroutine:
\* pl.when(wg_idx == 0)(perform_schedule_barrier)
EVConsumed(g) ==
  /\ pc[g] = "e_vc_arrive"
  /\ v_consumed_barriers' =
       [v_consumed_barriers EXCEPT ![slot_of(kv_step[g])] = barrier_arrive(@)]
  /\ signals' = [signals EXCEPT ![g] = Append(@, <<"v", kv_step[g]>>)]
  /\ kv_step' = [kv_step EXCEPT ![g] = @ + 1]
  /\ Goto(g, IF kv_step[g] + 1 < num_kv_tiles THEN "d_k_wait"
              ELSE IF g = 0 /\ use_schedule_barrier THEN "e_post_arrive"
              ELSE "e_epilogue")
  /\ UNCHANGED <<cfgvars, result, lsevars, bufvars, readyvars, k_consumed_barriers,
                 schedule_barrier, waits, statevars, issued, timeline>>

EPostLoopArrive(g) == ScheduleArrive(g, "e_post_arrive", "e_post_wait")

EPostLoopWait(g) == ScheduleWait(g, "e_post_wait", "e_epilogue")

\* acc /= l_i; qo_smem[...] = acc.astype(dtype)
EEpilogue(g) ==
  /\ pc[g] = "e_epilogue"
  /\ qo_smem' = [qo_smem EXCEPT ![g] =
                   [state |-> "output", acc |-> carry[g].acc, l_i |-> carry[g].l_i]]
  /\ lse_smem2' = IF lse_smem2[g].state # "none"
                     THEN [lse_smem2 EXCEPT ![g] =
                             LseStage("written", carry[g].m_i, carry[g].l_i)]
                     ELSE lse_smem2
  /\ Goto(g, "e_commit")
  /\ UNCHANGED <<cfgvars, result, accesses, kv_step, k_smem, v_smem, tma, readyvars, consvars,
                 schedule_barrier, waits, statevars, histvars>>

\* plgpu.commit_smem()
ECommitSmem(g) ==
  /\ pc[g] = "e_commit"
  /\ qo_smem' = [qo_smem EXCEPT ![g].state = "committed"]
  /\ lse_smem2' = IF lse_smem2[g].state # "none"
                     THEN [lse_smem2 EXCEPT ![g].state = "committed"]
                     ELSE lse_smem2
  /\ Goto(g, "e_copy_out")
  /\ UNCHANGED <<cfgvars, result, accesses, kv_step, k_smem, v_smem, tma, readyvars, consvars,
                 schedule_barrier, waits, statevars, histvars>>

\* copy_smem_to_gmem(qo_smem, out_ref.at[batch, ds(q_seq_base, block_q), q_head])
ECopyOut(g) ==
  /\ pc[g] = "e_copy_out"
  /\ IF lse_smem2[g].state # "none"
       THEN /\ tma' = tma \cup {Transfer("o", g, g), Transfer("lse", g, g)}
            /\ accesses' = [accesses EXCEPT ![g] =
                              @ \o << Access("out_ref", g, RowsIndex(g)),
                                      Access("lse_ref", g, LseIndex(g)) >>]
       ELSE /\ tma' = tma \cup {Transfer("o", g, g)}
            /\ accesses' = [accesses EXCEPT ![g] =
                              Append(@, Access("out_ref", g, RowsIndex(g)))]
  /\ Goto(g, "e_drain")
  /\ UNCHANGED <<cfgvars, result, lse_smem2, kv_step, k_smem, v_smem, qo_smem, readyvars, consvars,
                 schedule_barrier, waits, statevars, histvars>>

\* plgpu.wait_smem_to_gmem(0)
EWaitDrain(g) ==
  /\ pc[g] = "e_drain"
  /\ ~ \E x \in tma : x.kind \in {"o", "lse"} /\ x.slot = g
  /\ Goto(g, "done")
  /\ UNCHANGED <<cfgvars, result, lsevars, kv_step, bufvars, readyvars, consvars,
                 schedule_barrier, waits, statevars, histvars>>

EmitterComputeStep(g) ==
  \/ EQCopy(g) \/ EQWait(g) \/ EPreLoopArrive(g) \/ EPreLoopWait(g)
  \/ DriverKWait(g) \/ DriverVWait(g)
  \/ EComputeQK(g) \/ EQKArrive(g) \/ EQKWait(g) \/ EQKRead(g) \/ EKConsumed(g)
  \/ ESoftmax(g) \/ ESoftmaxArrive(g) \/ ESoftmaxWait(g) \/ ELateRowSum(g)
  \/ EComputePV(g) \/ EPVDone(g) \/ EVConsumed(g)
  \/ EPostLoopArrive(g) \/ EPostLoopWait(g)
  \/ EEpilogue(g) \/ ECommitSmem(g) \/ ECopyOut(g) \/ EWaitDrain(g)

\* ------------------------------------------------------------------------
\* pipeline driver, producer side (the memory thread of
\* emit_pipeline_warp_specialized with manual_consumed_barriers): prime all
\* slots, then refill a slot once its consumed barrier has completed
\* ------------------------------------------------------------------------
DriverPrimeK ==
  /\ pc[MEMORY_WG] = "d_prime_k"
  /\ LET i == kv_step[MEMORY_WG] IN
       /\ tma' = tma \cup {Transfer("k", i, i)}
       /\ k_smem' = [k_smem EXCEPT ![i] = [tile |-> i, full |-> FALSE]]
       /\ issued' = Append(issued, Transfer("k", i, i))
  /\ Goto(MEMORY_WG, "d_prime_v")
  /\ UNCHANGED <<cfgvars, result, lsevars, kv_step, v_smem, qo_smem, readyvars, consvars,
                 schedule_barrier, waits, statevars, signals, timeline>>

DriverPrimeV ==
  /\ pc[MEMORY_WG] = "d_prime_v"
  /\ LET i == kv_step[MEMORY_WG] IN
       /\ tma' = tma \cup {Transfer("v", i, i)}
       /\ v_smem' = [v_smem EXCEPT ![i] = [tile |-> i, full |-> FALSE]]
       /\ issued' = Append(issued, Transfer("v", i, i))
       /\ IF i + 1 < max_concurrent_steps
            THEN /\ kv_step' = [kv_step EXCEPT ![MEMORY_WG] = i + 1]
                 /\ Goto(MEMORY_WG, "d_prime_k")
            ELSE /\ kv_step' = [kv_step EXCEPT ![MEMORY_WG] = 0]
                 /\ Goto(MEMORY_WG, IF 0 < num_kv_tiles - max_concurrent_steps
                                      THEN "d_kc_wait" ELSE "done")
  /\ UNCHANGED <<cfgvars, result, lsevars, k_smem, qo_smem, readyvars, consvars,
                 schedule_barrier, waits, statevars, signals, timeline>>

DriverKConsumedWait ==
  /\ pc[MEMORY_WG] = "d_kc_wait"
  /\ LET slot == slot_of(kv_step[MEMORY_WG]) IN
       /\ barrier_ready(MEMORY_WG, <<"kc", slot>>, k_consumed_barriers[slot])
       /\ barrier_wait(MEMORY_WG, <<"kc", slot>>)
  /\ Goto(MEMORY_WG, "d_k_copy")
  /\ UNCHANGED <<cfgvars, result, lsevars, kv_step, bufvars, readyvars, consvars, schedule_barrier,
                 statevars, histvars>>

DriverKCopy ==
  /\ pc[MEMORY_WG] = "d_k_copy"
  /\ LET fetch_step == kv_step[MEMORY_WG] + max_concurrent_steps
         slot == slot_of(kv_step[MEMORY_WG]) IN
       /\ tma' = tma \cup {Transfer("k", slot, fetch_step)}
       /\ k_smem' = [k_smem EXCEPT ![slot] = [tile |-> fetch_step, full |-> FALSE]]
       /\ issued' = Append(issued, Transfer("k", slot, fetch_step))
  /\ Goto(MEMORY_WG, "d_vc_wait")
  /\ UNCHANGED <<cfgvars, result, lsevars, kv_step, v_smem, qo_smem, readyvars, consvars,
                 schedule_barrier, waits, statevars, signals, timeline>>

DriverVConsumedWait ==
  /\ pc[MEMORY_WG] = "d_vc_wait"
  /\ LET slot == slot_of(kv_step[MEMORY_WG]) IN
       /\ barrier_ready(MEMORY_WG, <<"vc", slot>>, v_consumed_barriers[slot])
       /\ barrier_wait(MEMORY_WG, <<"vc", slot>>)
  /\ Goto(MEMORY_WG, "d_v_copy")
  /\ UNCHANGED <<cfgvars, result, lsevars, kv_step, bufvars, readyvars, consvars, schedule_barrier,
                 statevars, histvars>>

DriverVCopy ==
  /\ pc[MEMORY_WG] = "d_v_copy"
  /\ LET fetch_step == kv_step[MEMORY_WG] + max_concurrent_steps
         slot == slot_of(kv_step[MEMORY_WG]) IN
       /\ tma' = tma \cup {Transfer("v", slot, fetch_step)}
       /\ v_smem' = [v_smem EXCEPT ![slot] = [tile |-> fetch_step, full |-> FALSE]]
       /\ issued' = Append(issued, Transfer("v", slot, fetch_step))
  /\ kv_step' = [kv_step EXCEPT ![MEMORY_WG] = @ + 1]
  /\ Goto(MEMORY_WG, IF kv_step[MEMORY_WG] + 1 < num_kv_tiles - max_concurrent_steps
                       THEN "d_kc_wait" ELSE "done")
  /\ UNCHANGED <<cfgvars, result, lsevars, k_smem, qo_smem, readyvars, consvars,
                 schedule_barrier, waits, statevars, signals, timeline>>

DriverMemoryStep ==
  \/ DriverPrimeK \/ DriverPrimeV
  \/ DriverKConsumedWait \/ DriverKCopy \/ DriverVConsumedWait \/ DriverVCopy

\* attention: out, lse = plgpu.kernel(...)(q, k, v); return out, (lse,) with
\* save_residuals, else return out.  The instance modelled stands for every
\* instance of the grid.
Return ==
  /\ impl = "attention"
  /\ \A wg \in WGs : pc[wg] = "done"
  /\ result = NoResult
  /\ result' = IF save_residuals
                  THEN Result("pair", Tensor(q.shape, q.dtype),
                              Tensor(<<q.shape[1], q.shape[3], q.shape[2]>>, "float32"))
                  ELSE Result("array", Tensor(q.shape, q.dtype), NoTensor)
  /\ UNCHANGED <<cfgvars, kernelvars>>

\* attention_with_pipeline_emitter: the same return
EReturn ==
  /\ impl = "emitter"
  /\ \A wg \in WGs : pc[wg] = "done"
  /\ result = NoResult
  /\ result' = IF save_residuals
                  THEN Result("pair", Tensor(q.shape, q.dtype),
                              Tensor(<<q.shape[1], q.shape[3], q.shape[2]>>, "float32"))
                  ELSE Result("array", Tensor(q.shape, q.dtype), NoTensor)
  /\ UNCHANGED <<cfgvars, kernelvars>>

Next ==
  \/ \E g \in ComputeWGs : ComputeStep(g)
  \/ MemoryStep
  \/ TransferComplete
  \/ WriteBackComplete
  \/ Return

NextEmitter ==
  \/ \E g \in ComputeWGs : EmitterComputeStep(g)
  \/ DriverMemoryStep
  \/ TransferComplete
  \/ WriteBackComplete
  \/ EReturn

NextKernels ==
  \/ \E g \in ComputeWGs : ComputeStep(g)
  \/ MemoryStep
  \/ \E g \in ComputeWGs : EmitterComputeStep(g)
  \/ DriverMemoryStep
  \/ TransferComplete
  \/ WriteBackComplete
  \/ Return
  \/ EReturn

\* the hand-unrolled kernel
Spec == Init /\ [][Next]_vars

\* the pipeline-emitter kernel
SpecEmitter == InitEmitter /\ [][NextEmitter]_vars

\* either kernel, for the same problem and configuration
SpecKernels == (Init \/ InitEmitter) /\ [][NextKernels]_vars

\* the hand-unrolled kernel, any instance of a grid, save_residuals on or off
SpecResiduals == InitResiduals /\ [][Next]_vars

\* the three warpgroups are scheduled fairly and every issued
\* asynchronous transfer eventually completes
FairSpec ==
  /\ Spec
  /\ \A g \in ComputeWGs : WF_vars(ComputeStep(g))
  /\ WF_vars(MemoryStep)
  /\ WF_vars(TransferComplete)
  /\ WF_vars(WriteBackComplete)

FairSpecEmitter ==
  /\ SpecEmitter
  /\ \A g \in ComputeWGs : WF_vars(EmitterComputeStep(g))
  /\ WF_vars(DriverMemoryStep)
  /\ WF_vars(TransferComplete)
  /\ WF_vars(WriteBackComplete)

AllDone == \A wg \in WGs : pc[wg] = "done"

InSeq(x, seq) == \E i \in 1 .. Len(seq) : seq[i] = x

Other(g) == 1 - g

\* ------------------------------------------------------------------------
\* C1: the memory group issues the key (value) transfer of tile t >= depth
\* into slot t mod depth only after both compute groups have signalled
\* key-consumed (value-consumed) for tile t - depth, and a slot is never
\* overwritten while a matmul of a compute group is reading it.
\* ------------------------------------------------------------------------
SlotReuseSafe ==
  impl = "attention" =>
    /\ \A i \in 1 .. Len(issued) :
         /\ issued[i].slot = issued[i].tile % max_concurrent_steps
         /\ issued[i].tile >= max_concurrent_steps =>
              \A g \in ComputeWGs :
                InSeq(<<issued[i].kind, issued[i].tile - max_concurrent_steps>>, signals[g])
    /\ \A g \in ComputeWGs :
         /\ mma[g].kind = "qk" =>
              /\ k_smem[mma[g].slot] = mma[g].rhs
              /\ ~ \E x \in tma : x.kind = "k" /\ x.slot = mma[g].slot
         /\ mma[g].kind = "pv" =>
              /\ v_smem[mma[g].slot] = mma[g].rhs
              /\ ~ \E x \in tma : x.kind = "v" /\ x.slot = mma[g].slot

SlotReuseWitness ==
  /\ impl = "attention"
  /\ \E i \in 1 .. Len(issued) :
       issued[i].kind = "v" /\ issued[i].tile >= max_concurrent_steps
  /\ \E g \in ComputeWGs : mma[g].kind = "pv" /\ kv_step[g] >= max_concurrent_steps

\* ------------------------------------------------------------------------
\* C2: under fair scheduling and eventual completion of every transfer the
\* memory group and both compute groups reach the end of their bodies.
\* ------------------------------------------------------------------------
Termination == <>AllDone

TerminationWitness ==
  impl = "attention" /\ AllDone /\ num_kv_tiles = 1 /\ max_concurrent_steps = 1

\* ------------------------------------------------------------------------
\* C3: the score matmul of step s reads key slot s mod depth holding exactly
\* key tile s, transfer complete; the value matmul of step s reads value
\* slot s mod depth holding exactly value tile s, transfer complete; the
\* query staging buffer is read only after the query-ready barrier completed.
\* ------------------------------------------------------------------------
ReadsComplete ==
  impl = "attention" =>
    \A g \in ComputeWGs :
      /\ mma[g].kind = "qk" =>
           /\ mma[g].slot = kv_step[g] % max_concurrent_steps
           /\ mma[g].rhs = [tile |-> kv_step[g], full |-> TRUE]
           /\ mma[g].q = "query"
           /\ waits[g][<<"q", g>>] = 1
      /\ mma[g].kind = "pv" =>
           /\ mma[g].slot = kv_step[g] % max_concurrent_steps
           /\ mma[g].rhs = [tile |-> kv_step[g], full |-> TRUE]
           /\ mma[g].s = Scores(kv_step[g], "query", [tile |-> kv_step[g], full |-> TRUE])

ReadsCompleteWitness ==
  /\ impl = "attention"
  /\ mma[0].kind = "pv" /\ mma[1].kind = "qk"
  /\ kv_step[0] >= max_concurrent_steps
  /\ kv_step[1] >= max_concurrent_steps

IssuesMatmul(g) == mma'[g] # mma[g] /\ mma'[g].kind # "none"

FullTile(t) == [tile |-> t, full |-> TRUE]

TileScores(t) == Scores(t, "query", FullTile(t))

TileUpdate(c, t) ==
  [acc |-> c.acc \o << Op("rescale", TileScores(t), EmptySlot),
                       Op("pv", TileScores(t), FullTile(t)) >>,
   m_i |-> Append(c.m_i, Op("max", TileScores(t), EmptySlot)),
   l_i |-> c.l_i \o << Op("rescale", TileScores(t), EmptySlot),
                       Op("rowsum", TileScores(t), EmptySlot) >>]

RECURSIVE StateAfter(_)
StateAfter(t) == IF t = 0 THEN InitCarry ELSE TileUpdate(StateAfter(t - 1), t - 1)

SignalsAfter(t) ==
  [i \in 1 .. (2 * t) |-> <<IF i % 2 = 1 THEN "k" ELSE "v", (i - 1) \div 2>>]

OutputOf(c) == << [acc |-> c.acc, l_i |-> c.l_i] >>

BetweenSteps ==
  {"qk_issue", "post_arrive", "post_wait", "epilogue", "commit", "copy_out", "drain",
   "d_k_wait", "e_post_arrive", "e_post_wait", "e_epilogue", "e_commit",
   "e_copy_out", "e_drain", "done"}

\* ------------------------------------------------------------------------
\* C9: in the hand-unrolled kernel and in the pipeline-emitter kernel alike
\* each compute group starts from the same initial state, applies the same
\* update for tiles 0..n-1 in order, signals key-consumed and
\* value-consumed exactly once per tile, and writes the same normalised
\* output from the final state.
\* ------------------------------------------------------------------------
KernelsEquivalent ==
  \A g \in ComputeWGs :
    /\ pc[g] \in BetweenSteps =>
         /\ carry[g] = StateAfter(kv_step[g])
         /\ signals[g] = SignalsAfter(kv_step[g])
    /\ pc[g] = "done" =>
         /\ kv_step[g] = num_kv_tiles
         /\ out_ref[g] = OutputOf(StateAfter(num_kv_tiles))

KernelsEquivalentWitness ==
  /\ impl = "emitter"
  /\ AllDone
  /\ num_kv_tiles > max_concurrent_steps
  /\ \A g \in ComputeWGs : Len(signals[g]) = 2 * num_kv_tiles

\* ------------------------------------------------------------------------
\* C10: in the pipeline-emitter kernel with use_schedule_barrier off neither
\* compute group arrives at or waits on the schedule barrier, the instance
\* still terminates, and each compute group ends with the same running
\* state, the same consumed signals and the same output as with the flag
\* on (where the schedule barrier completes 2n+1 phases).
\* ------------------------------------------------------------------------
ScheduleBarrierOptional ==
  /\ [](~ use_schedule_barrier =>
         /\ schedule_barrier = Barrier(compute_wgs)
         /\ \A g \in ComputeWGs : waits[g][<<"s", 0>>] = 0)
  /\ [](AllDone =>
         /\ \A g \in ComputeWGs :
              /\ carry[g] = StateAfter(num_kv_tiles)
              /\ signals[g] = SignalsAfter(num_kv_tiles)
              /\ out_ref[g] = OutputOf(StateAfter(num_kv_tiles))
         /\ use_schedule_barrier =>
              schedule_barrier = [Barrier(compute_wgs) EXCEPT !.phase = 2 * num_kv_tiles + 1])
  /\ (~ use_schedule_barrier => <>AllDone)

ScheduleBarrierOptionalWitness ==
  /\ impl = "emitter"
  /\ ~ use_schedule_barrier
  /\ AllDone
  /\ num_kv_tiles > max_concurrent_steps
  /\ schedule_barrier.phase = 0

\* ------------------------------------------------------------------------
\* Entry validation
\* ------------------------------------------------------------------------
AllRank4 == Len(q.shape) = 4 /\ Len(k.shape) = 4 /\ Len(v.shape) = 4

\* the key/value shape inferred from the query and the key
ExpectedKVShape == <<q.shape[1], k.shape[2], k.shape[3], q.shape[4]>>

\* C5: attention fails before launching whenever the value tensor's shape
\* differs from the expected key/value shape.
ValueShapeRejected ==
  (outcome["attention"] # "not_called" /\ AllRank4 /\ v.shape # ExpectedKVShape)
    => outcome["attention"] # "launched"

\* the first violated check in the order the specification lists them
FirstListedViolation ==
  IF ~ AllRank4 THEN "rank"
  ELSE IF k.shape # ExpectedKVShape THEN "k_shape"
  ELSE IF v.shape # ExpectedKVShape THEN "v_shape"
  ELSE IF q.dtype # k.dtype \/ q.dtype # v.dtype THEN "dtype_mismatch"
  ELSE IF q.shape[3] % k.shape[3] # 0 THEN "num_heads"
  ELSE IF q.dtype \notin {"float16", "bfloat16"} THEN "dtype_unsupported"
  ELSE IF q.shape[4] % 64 # 0 THEN "head_dim"
  ELSE IF k.shape[2] % config.block_kv # 0 THEN "kv_seq_len"
  ELSE IF q.shape[2] % (2 * config.block_q) # 0 THEN "q_seq_len"
  ELSE "launched"

\* C6: the error attention raises is the one of the first violated check in
\* the listed order (rank, key/value shape, dtype mismatch, head count,
\* unsupported element type, head_dim, kv_len, q_len), and an input that
\* violates none raises no error.
FirstListedViolationReported ==
  outcome["attention"] # "not_called" => outcome["attention"] = FirstListedViolation

\* C7: attention_with_pipeline_emitter rejects exactly the inputs attention
\* rejects.
SameAcceptReject ==
  (outcome["attention"] # "not_called" /\ outcome["emitter"] # "not_called")
    => (outcome["attention"] = "launched" <=> outcome["emitter"] = "launched")

\* ------------------------------------------------------------------------
\* C8: TuningConfig(...) returns a configuration iff block_q % 64 = 0,
\* block_kv % 64 = 0 and max_concurrent_steps >= 2; otherwise it raises,
\* naming the first violated field in the order block_q, block_kv,
\* max_concurrent_steps, and no configuration is produced.
\* ------------------------------------------------------------------------
ConfigValidated ==
  ctor.state \in {"returned", "raised"} =>
    LET a == ctor.args
        ok_q == a.block_q % 64 = 0
        ok_kv == a.block_kv % 64 = 0
        ok_steps == a.max_concurrent_steps >= 2
    IN /\ ctor.state = "returned" <=> (ok_q /\ ok_kv /\ ok_steps)
       /\ ctor.state = "returned" => (config = a /\ raised = "none")
       /\ ctor.state = "raised" =>
            /\ config = NoConfig
            /\ raised = (IF ~ ok_q THEN "block_q"
                         ELSE IF ~ ok_kv THEN "block_kv" ELSE "max_concurrent_steps")
       /\ (a.block_q = 63 /\ a.block_kv = 64 /\ a.max_concurrent_steps = 2)
            => raised = "block_q"
       /\ (a.block_q = 64 /\ a.block_kv = 64 /\ a.max_concurrent_steps = 1)
            => raised = "max_concurrent_steps"

ConfigValidatedWitness ==
  /\ ctor.state = "raised"
  /\ ctor.args = TuningConfig(64, 64, 1, TRUE)
  /\ raised = "max_concurrent_steps"

\* ------------------------------------------------------------------------
\* Rows of the query / output / log-sum-exp tensors owned by the compute
\* groups of the instances of the grid
\* ------------------------------------------------------------------------
\* the first row owned by group g of query super-tile i
RowBase(i, g) == i * 2 * block_q + g * block_q

\* the rows owned by group g of query super-tile i
RowsOf(i, g) == RowBase(i, g) .. (RowBase(i, g) + block_q - 1)

\* the (query-tile, group) pairs of the grid that own row r
OwnersOf(r) ==
  {p \in {a.q_seq : a \in Grid} \X ComputeWGs : r \in RowsOf(p[1], p[2])}

AccessesTo(g, ref) == SelectSeq(accesses[g], LAMBDA a : a.ref = ref)

AfterEpilogue == {"commit", "copy_out", "drain", "done"}

AfterCopyOut == {"drain", "done"}

\* ------------------------------------------------------------------------
\* C11: attention returns the output alone (query's shape and dtype)
\* without save_residuals, and the output plus a float32 log-sum-exp tensor
\* of shape [batch, q_heads, q_len] with it; the log-sum-exp staging buffer
\* is allocated, written and copied out iff save_residuals; each compute
\* group of each instance copies its log-sum-exp rows out exactly once, to
\* [batch, head, q_seq_base .. q_seq_base + block_q), and every entry
\* [batch, head, row] belongs to exactly one (instance, group).
\* ------------------------------------------------------------------------
ResidualsSaved ==
  /\ result.kind # "none" =>
       /\ result.out = Tensor(q.shape, q.dtype)
       /\ ~ save_residuals => (result.kind = "array" /\ result.lse = NoTensor)
       /\ save_residuals =>
            /\ result.kind = "pair"
            /\ result.lse = Tensor(<<q.shape[1], q.shape[3], q.shape[2]>>, "float32")
       /\ \A r \in 0 .. (q.shape[2] - 1) : Cardinality(OwnersOf(r)) = 1
       /\ \A g \in ComputeWGs :
            Len(AccessesTo(g, "lse_ref")) = (IF save_residuals THEN 1 ELSE 0)
  /\ \A g \in ComputeWGs :
       /\ (lse_smem2[g].state # "none") <=> save_residuals
       /\ pc[g] \in AfterEpilogue =>
            (lse_smem2[g].state \in {"written", "committed"} <=> save_residuals)
       /\ pc[g] \in AfterCopyOut =>
            Len(AccessesTo(g, "lse_ref")) = (IF save_residuals THEN 1 ELSE 0)
       /\ pc[g] \notin AfterCopyOut => Len(AccessesTo(g, "lse_ref")) = 0
       /\ (\E x \in tma : x.kind = "lse" /\ x.slot = g) =>
            (save_residuals /\ lse_smem2[g].state = "committed")
       /\ \A i \in 1 .. Len(accesses[g]) :
            accesses[g][i].ref = "lse_ref" =>
              /\ accesses[g][i].index[1] = axis.batch
              /\ accesses[g][i].index[2] = axis.heads
              /\ accesses[g][i].index[3] = RowBase(axis.q_seq, g)
       /\ pc[g] = "done" => ~ \E x \in tma : x.kind = "lse" /\ x.slot = g

ResidualsSavedWitness ==
  /\ save_residuals
  /\ result.kind = "pair"
  /\ axis = AxisIndex(1, 1, 1)
  /\ \A g \in ComputeWGs : lse_smem2[g].state = "committed"

\* ------------------------------------------------------------------------
\* error_check
\* ------------------------------------------------------------------------
\* the position of the last raise_if_error among the first n calls, or 0
RECURSIVE LastClear(_)
LastClear(n) ==
  IF n = 0 THEN 0
  ELSE IF trace[n].op = "raise_if_error" THEN n ELSE LastClear(n - 1)

\* the failing set_error_if calls among calls lo+1 .. hi
Failing(lo, hi) ==
  {i \in (lo + 1) .. hi : trace[i].op = "set_error_if" /\ trace[i].pred}

SetMin(S) == CHOOSE x \in S : \A y \in S : x <= y

\* the error stored after the first n calls under first-error-wins
FirstError(n) ==
  IF Failing(LastClear(n), n) = {} THEN NoError
  ELSE ErrorState(TRUE, trace[SetMin(Failing(LastClear(n), n))].msg)

\* C13: after any sequence of set_error_if calls since the last clear the
\* stored error is the message of the first call whose predicate was true;
\* calls with a false predicate never set it and later calls with a true
\* predicate never overwrite it.
FirstErrorWins ==
  /\ error = FirstError(Len(trace))
  /\ \A i \in 1 .. Len(trace) :
       trace[i].op = "set_error_if" =>
         /\ ~ trace[i].pred => FirstError(i) = FirstError(i - 1)
         /\ FirstError(i - 1).is_set => FirstError(i) = FirstError(i - 1)

FirstErrorWinsWitness ==
  /\ Len(trace) = 3
  /\ trace[1] = SetCall(FALSE, "x must be greater than 0 in f")
  /\ trace[2] = SetCall(TRUE, "x must be greater than 0 in g")
  /\ trace[3] = SetCall(TRUE, "x must be greater than 0 in f")
  /\ error = ErrorState(TRUE, "x must be greater than 0 in g")

\* C14: raise_if_error raises with the stored message exactly when the flag
\* is set and leaves the flag unset: an immediately following
\* raise_if_error does not raise, and a failing set_error_if after it is
\* reported with its own message.
RaiseIfErrorClears ==
  \A i \in 1 .. Len(trace) :
    trace[i].op = "raise_if_error" =>
      /\ trace[i].raised = FirstError(i - 1)
      /\ i = Len(trace) => error = NoError
      /\ (i > 1 /\ trace[i - 1].op = "raise_if_error") => ~ trace[i].raised.is_set
      /\ (i > 2 /\ trace[i - 1].op = "set_error_if" /\ trace[i - 1].pred
             /\ trace[i - 2].op = "raise_if_error") =>
           trace[i].raised = ErrorState(TRUE, trace[i - 1].msg)

RaiseIfErrorClearsWitness ==
  /\ Len(trace) = 5
  /\ trace[1] = SetCall(TRUE, "x must be greater than 0 in f")
  /\ trace[2] = RaiseCall(ErrorState(TRUE, "x must be greater than 0 in f"))
  /\ trace[3] = RaiseCall(NoError)
  /\ trace[4] = SetCall(TRUE, "x must be greater than 0 in g")
  /\ trace[5] = RaiseCall(ErrorState(TRUE, "x must be greater than 0 in g"))
  /\ error = NoError

\* ------------------------------------------------------------------------
\* C15: the memory group issues one key and one value transfer per tile
\* 0..n-1, in increasing tile order, tile t into slot t mod depth; the
\* first depth tiles without any wait, each later transfer after exactly
\* one wait on the key-consumed (value-consumed) barrier of its slot; no
\* transfer for a tile >= n.
\* ------------------------------------------------------------------------
\* the j-th transfer of the expected issue order k0 v0 k1 v1 ...
NthTransfer(j) ==
  Transfer(IF j % 2 = 1 THEN "k" ELSE "v",
           ((j - 1) \div 2) % max_concurrent_steps, (j - 1) \div 2)

\* refills of the given kind issued into a slot so far
Refills(kind, slot) ==
  Cardinality({j \in 1 .. Len(issued) :
                 /\ issued[j].kind = kind /\ issued[j].slot = slot
                 /\ issued[j].tile >= max_concurrent_steps})

\* 1 if the memory group stands between a wait on a slot and its copy
Waited(label, slot) ==
  IF pc[MEMORY_WG] = label /\ kv_step[MEMORY_WG] % max_concurrent_steps = slot
    THEN 1 ELSE 0

ProducerInOrder ==
  impl = "attention" =>
    /\ Len(issued) <= 2 * num_kv_tiles
    /\ \A j \in 1 .. Len(issued) : issued[j] = NthTransfer(j)
    /\ pc[MEMORY_WG] = "done" => Len(issued) = 2 * num_kv_tiles
    /\ \A slot \in Slots :
         /\ waits[MEMORY_WG][<<"kc", slot>>] = Refills("k", slot) + Waited("k_copy", slot)
         /\ waits[MEMORY_WG][<<"vc", slot>>] = Refills("v", slot) + Waited("v_copy", slot)
    /\ \A key \in BarrierKeys :
         key[1] \notin {"kc", "vc"} => waits[MEMORY_WG][key] = 0

ProducerInOrderWitness ==
  /\ impl = "attention"
  /\ pc[MEMORY_WG] = "done"
  /\ num_kv_tiles > max_concurrent_steps
  /\ Len(issued) = 2 * num_kv_tiles
  /\ waits[MEMORY_WG][<<"vc", 0>>] = 1

\* ------------------------------------------------------------------------
\* C16: for every input attention accepts, the effective depth
\* d = min(max_concurrent_steps, kv_len / block_kv) satisfies 1 <= d <= n,
\* the refill loop runs n - d >= 0 times, and at most d key tiles (value
\* tiles) are issued and not yet released by both compute groups.
\* ------------------------------------------------------------------------
\* tiles of a kind whose transfer was issued and that a compute group has
\* not signalled consumed yet
InFlight(kind) ==
  {j \in 1 .. Len(issued) :
     /\ issued[j].kind = kind
     /\ \E g \in ComputeWGs : ~ InSeq(<<kind, issued[j].tile>>, signals[g])}

DepthWithinTiles ==
  outcome["attention"] = "launched" =>
    /\ 1 <= max_concurrent_steps
    /\ max_concurrent_steps <= num_kv_tiles
    /\ num_kv_tiles - max_concurrent_steps >= 0
    /\ Cardinality(InFlight("k")) <= max_concurrent_steps
    /\ Cardinality(InFlight("v")) <= max_concurrent_steps

\* ------------------------------------------------------------------------
\* C17: in each compute group of attention the running state starts as
\* (m = -inf, l = 0, acc = 0) and is updated once per tile, tiles 0..n-1 in
\* order; within a step the score matmul completes, then key-consumed is
\* signalled, then the softmax rescale is applied, then the value matmul
\* completes, then value-consumed is signalled; acc / l is formed only
\* after the n-th update; a step that changes the state of a group is a
\* step of that group.
\* ------------------------------------------------------------------------
BeforeScores ==
  {"k_wait0", "pre_arrive", "pre_wait", "qk_issue", "qk_arrive", "qk_swait", "qk_read",
   "kc_arrive"}

AfterLoop == {"post_arrive", "post_wait", "epilogue"} \cup AfterEpilogue

AfterRescale == {"sm_arrive", "v_wait", "sm_wait", "l_add", "pv_issue", "k_wait", "pv_done"}

AfterRowSum == {"pv_issue", "k_wait", "pv_done"}

StepOrdered(g) ==
  LET step == kv_step[g]
      before == StateAfter(step)
      after == StateAfter(step + 1)
      k_signalled == Append(SignalsAfter(step), <<"k", step>>)
  IN /\ step <= num_kv_tiles
     /\ pc[g] \in {"q_copy", "q_wait"} => (step = 0 /\ signals[g] = <<>>)
     /\ pc[g] \in BeforeScores \cup AfterLoop =>
          (carry[g] = before /\ signals[g] = SignalsAfter(step))
     /\ pc[g] \in BeforeScores => step < num_kv_tiles
     /\ pc[g] \in AfterLoop => step = num_kv_tiles
     /\ pc[g] = "softmax" =>
          /\ carry[g] = before
          /\ qk[g] = TileScores(step)
          /\ mma[g] = NoMma
          /\ signals[g] = k_signalled
     /\ pc[g] \in AfterRescale =>
          /\ carry[g].m_i = after.m_i
          /\ carry[g].acc = Append(before.acc, Op("rescale", TileScores(step), EmptySlot))
          /\ carry[g].l_i \in
               {Append(before.l_i, Op("rescale", TileScores(step), EmptySlot)), after.l_i}
          /\ signals[g] = k_signalled
     /\ pc[g] \in AfterRowSum => carry[g].l_i = after.l_i
     /\ pc[g] = "vc_arrive" =>
          /\ carry[g] = after
          /\ mma[g] = NoMma
          /\ signals[g] = k_signalled
     /\ qo_smem[g].state \in {"output", "committed"} =>
          /\ pc[g] \in AfterEpilogue
          /\ qo_smem[g].acc = StateAfter(num_kv_tiles).acc
          /\ qo_smem[g].l_i = StateAfter(num_kv_tiles).l_i

RunningStateOrdered ==
  /\ [](impl = "attention" => \A g \in ComputeWGs : StepOrdered(g))
  /\ [][impl = "attention" =>
          \A g \in ComputeWGs :
            (carry'[g] # carry[g] \/ qk'[g] # qk[g] \/ mma'[g] # mma[g]) =>
              /\ pc'[g] # pc[g]
              /\ pc'[Other(g)] = pc[Other(g)]
              /\ carry'[Other(g)] = carry[Other(g)]
              /\ qk'[Other(g)] = qk[Other(g)]
              /\ mma'[Other(g)] = mma[Other(g)]]_vars

RunningStateOrderedWitness ==
  /\ impl = "attention"
  /\ num_kv_tiles = MaxTiles
  /\ pc[0] = "done" /\ kv_step[0] = num_kv_tiles
  /\ pc[1] = "vc_arrive" /\ kv_step[1] = num_kv_tiles - 1
  /\ carry[1] = StateAfter(num_kv_tiles)

\* ------------------------------------------------------------------------
\* C18: group g of query tile i owns rows [i*2*block_q + g*block_q,
\* i*2*block_q + (g+1)*block_q); these ranges are pairwise disjoint and
\* cover exactly [0, q_len); each compute group of each instance reads its
\* rows of the query once and writes its rows of the output once, for the
\* batch entry and head of its instance.
\* ------------------------------------------------------------------------
Owners == {a.q_seq : a \in Grid} \X ComputeWGs

RowsPartitioned ==
  impl = "attention" =>
    /\ axis \in Grid
    /\ \A g \in ComputeWGs :
         /\ \A i \in 1 .. Len(accesses[g]) :
              accesses[g][i].ref \in {"q_ref", "out_ref"} =>
                accesses[g][i].index = <<axis.batch, RowBase(axis.q_seq, g), axis.heads>>
         /\ Len(AccessesTo(g, "q_ref")) = (IF pc[g] = "q_copy" THEN 0 ELSE 1)
         /\ Len(AccessesTo(g, "out_ref")) = (IF pc[g] \in AfterCopyOut THEN 1 ELSE 0)
         /\ pc[g] = "done" => Len(out_ref[g]) = 1
    /\ result.kind # "none" =>
         /\ \A o \in Owners : RowsOf(o[1], o[2]) \subseteq 0 .. (q.shape[2] - 1)
         /\ \A o1 \in Owners, o2 \in Owners :
              o1 # o2 => RowsOf(o1[1], o1[2]) \cap RowsOf(o2[1], o2[2]) = {}
         /\ UNION {RowsOf(o[1], o[2]) : o \in Owners} = 0 .. (q.shape[2] - 1)

RowsPartitionedWitness ==
  /\ impl = "attention"
  /\ num_q_tiles = MaxQTiles
  /\ axis.q_seq = MaxQTiles - 1
  /\ result.kind # "none"
  /\ \A g \in ComputeWGs :
       /\ Len(out_ref[g]) = 1
       /\ InSeq(Access("out_ref", g,
                        <<axis.batch, (MaxQTiles - 1) * 128 + g * 64, axis.heads>>),
                 accesses[g])

\* ------------------------------------------------------------------------
\* C19: a compute group of attention overwrites its staging buffer with
\* the normalised output only after its last score matmul has completed,
\* issues the write-back only after the store is committed, and reaches
\* the end of its body only after its write-backs have drained; the
\* staging buffer of a group changes only in steps of that group and on
\* completion of that group's own query transfer.
\* ------------------------------------------------------------------------
WriteBackOf(g) == {x \in tma : x.kind \in {"o", "lse"} /\ x.slot = g}

StagingOrdered(g) ==
  /\ mma[g].kind = "qk" => qo_smem[g].state = "query"
  /\ qo_smem[g].state \in {"output", "committed"} =>
       /\ mma[g] = NoMma
       /\ kv_step[g] = num_kv_tiles
       /\ qk[g] = TileScores(num_kv_tiles - 1)
       /\ pc[g] \in AfterEpilogue
  /\ (WriteBackOf(g) # {} \/ AccessesTo(g, "out_ref") # <<>>) =>
       qo_smem[g].state = "committed"
  /\ WriteBackOf(g) # {} => pc[g] = "drain"
  /\ pc[g] = "done" =>
       /\ WriteBackOf(g) = {}
       /\ out_ref[g] = OutputOf(StateAfter(num_kv_tiles))

EpilogueOrdered ==
  /\ [](impl = "attention" => \A g \in ComputeWGs : StagingOrdered(g))
  /\ [][impl = "attention" =>
          \A g \in ComputeWGs :
            qo_smem'[g] # qo_smem[g] =>
              /\ pc'[Other(g)] = pc[Other(g)]
              /\ pc'[MEMORY_WG] = pc[MEMORY_WG]
              /\ \/ pc'[g] # pc[g]
                 \/ /\ Transfer("q", g, g) \in tma
                    /\ tma' = tma \ {Transfer("q", g, g)}
                    /\ pc[g] = "q_wait"]_vars

EpilogueOrderedWitness ==
  /\ impl = "attention"
  /\ pc[0] = "drain" /\ Transfer("o", 0, 0) \in tma
  /\ pc[1] = "done" /\ Len(out_ref[1]) = 1
  /\ qo_smem[0].state = "committed"

\* ------------------------------------------------------------------------
\* C20: with head_dim <= 128 and with head_dim > 128 alike, each step of a
\* compute group performs schedule arrive, value-ready wait, schedule wait
\* in this order between the rescale and the value matmul, the row sums
\* being added before or after them without any barrier operation; the
\* value matmul is issued on the same (m, l, acc) and every step ends in
\* the same state; slots are reused safely and the instance terminates.
\* ------------------------------------------------------------------------
\* group g moves on from the given position
Leaves(g, label) == pc[g] = label /\ pc'[g] # label

NoBarrierOp(g) == waits'[g] = waits[g] /\ schedule_barrier' = schedule_barrier

OneWait(g, key) ==
  /\ waits'[g] = [waits[g] EXCEPT ![key] = @ + 1]
  /\ schedule_barrier' = schedule_barrier

EndSoftmaxSequence(g) ==
  /\ Leaves(g, "softmax") => (pc'[g] = "sm_arrive" /\ NoBarrierOp(g))
  /\ Leaves(g, "sm_arrive") =>
       /\ pc'[g] = "v_wait"
       /\ waits'[g] = waits[g]
       /\ schedule_barrier' = barrier_arrive(schedule_barrier)
  /\ Leaves(g, "v_wait") =>
       (pc'[g] = "sm_wait" /\ OneWait(g, <<"v", kv_step[g] % max_concurrent_steps>>))
  /\ Leaves(g, "sm_wait") =>
       /\ pc'[g] = (IF head_dim <= 128 THEN "pv_issue" ELSE "l_add")
       /\ OneWait(g, <<"s", 0>>)
  /\ Leaves(g, "l_add") => (pc'[g] = "pv_issue" /\ NoBarrierOp(g))

SameStateBothOrders(g) ==
  /\ pc[g] \in BetweenSteps =>
       /\ carry[g] = StateAfter(kv_step[g])
       /\ waits[g][<<"s", 0>>] =
            2 * kv_step[g]
              + (IF g = 0 /\ pc[g] \in {"qk_issue", "post_arrive", "post_wait"} THEN 0 ELSE 1)
  /\ pc[g] = "pv_issue" =>
       /\ carry[g].m_i = StateAfter(kv_step[g] + 1).m_i
       /\ carry[g].l_i = StateAfter(kv_step[g] + 1).l_i
       /\ carry[g].acc = Append(StateAfter(kv_step[g]).acc,
                                 Op("rescale", TileScores(kv_step[g]), EmptySlot))

OrderingsEquivalent ==
  /\ [](impl = "attention" => \A g \in ComputeWGs : SameStateBothOrders(g))
  /\ [][impl = "attention" => \A g \in ComputeWGs : EndSoftmaxSequence(g)]_vars
  /\ []SlotReuseSafe
  /\ <>AllDone

OrderingsEquivalentWitness ==
  /\ impl = "attention"
  /\ head_dim > 128
  /\ AllDone
  /\ num_kv_tiles > max_concurrent_steps
  /\ \A g \in ComputeWGs : carry[g] = StateAfter(num_kv_tiles)

\* ------------------------------------------------------------------------
\* C21: the benchmark loop recovers from shared-memory exhaustion only
\* ------------------------------------------------------------------------
\* the one failure the loop is said to recover from
SharedMemoryExhaustion(e) ==
  /\ e.type = "ValueError"
  /\ \E at \in 0 .. (Len(e.args) - 4) :
       SubSeq(e.args, at + 1, at + 4) = <<"exceeds", "available", "shared", "memory">>

\* C21: for the problem being measured, the attempts run through block_kv =
\* 256, 128, 64 in that order; an attempt is followed by another one only if
\* it ended with a ValueError whose message contains "exceeds available
\* shared memory"; an attempt that ended with any other exception (another
\* ValueError, an error of another class, a failed comparison with the
\* reference) is the last one and its exception has left main; an attempt that
\* ended normally is the last one for its problem and the loop is left.
BenchmarkLoopRecovery ==
  LET log == bench.log
      n == Len(log)
  IN  /\ n <= 3
      /\ \A j \in 1 .. n : log[j].block_kv = <<256, 128, 64>>[j]
      /\ \A j \in 1 .. (n - 1) : SharedMemoryExhaustion(log[j].exc)
      /\ bench.status = "running" => bench.i = n + 1 /\ bench.i <= 3
      /\ bench.status = "raised" <=>
            /\ n > 0
            /\ log[n].exc # NoException
            /\ ~SharedMemoryExhaustion(log[n].exc)
      /\ bench.status = "raised" => bench.exc = log[n].exc
      /\ bench.status = "broke" => n > 0 /\ log[n].exc = NoException
      /\ (n > 0 /\ log[n].exc = NoException) =>
            /\ bench.status \in {"broke", "returned"}
            /\ bench.best = log[n].block_kv
      /\ bench.status = "exhausted" => n = 3 /\ SharedMemoryExhaustion(log[3].exc)
      /\ (n = 3 /\ SharedMemoryExhaustion(log[3].exc)) =>
            /\ bench.status \in {"exhausted", "returned"}
            /\ bench.best = 0
      /\ \A j \in 1 .. n :
           log[j].exc.type = "AssertionError" =>
             problem_it[bench.problem].seq_len < 32768 /\ log[j].compared

\* two configurations ran out of shared memory and the third one ran
BenchmarkLoopWitness ==
  /\ bench.status = "broke"
  /\ Len(bench.log) = 3
  /\ bench.best = 64
  /\ bench.log[3].compared

\* ------------------------------------------------------------------------
\* C22: the schedule barrier keeps the compute groups in lock-step
\* ------------------------------------------------------------------------
\* the events of group g with the given operations
EventsOf(g, ops) ==
  {timeline[g][i] : i \in {j \in 1 .. Len(timeline[g]) : timeline[g][j].op \in ops}}

\* group g did op of step s while fewer than p phases of the schedule barrier
\* were complete, that is before anything done with p phases complete
DidBefore(g, op, s, p) ==
  \E e \in EventsOf(g, {op}) : e.step = s /\ e.phase < p

\* the number of schedule-barrier rendezvous group g has been through
Rendezvous(g) == Cardinality({i \in 1 .. Len(timeline[g]) : timeline[g][i].op = "wait"})

\* C22: group 1 has issued the score matmul of step s only after group 0
\* issued its own of step s; group 0 has issued the value matmul of step s and
\* the score matmul of step s+1 only after group 1 issued its score matmul of
\* step s; the loop counters satisfy kv_step[1] <= kv_step[0] <= kv_step[1] + 1;
\* no matmul of group 0 and matmul of group 1 were issued with the same number
\* of schedule-barrier phases complete; each arrival of a group is followed
\* by its wait before its next arrival; group 1 starts with a rendezvous and
\* group 0 with a matmul; a finished group has been through exactly 2n+1
\* rendezvous, the last event of group 0 being a rendezvous and that of
\* group 1 a matmul.
ScheduleLockStep ==
  /\ \A e \in EventsOf(1, {"qk"}) : DidBefore(0, "qk", e.step, e.phase)
  /\ \A e \in EventsOf(0, {"pv"}) : DidBefore(1, "qk", e.step, e.phase)
  /\ \A e \in EventsOf(0, {"qk"}) :
       e.step > 0 => DidBefore(1, "qk", e.step - 1, e.phase)
  /\ kv_step[1] <= kv_step[0]
  /\ kv_step[0] <= kv_step[1] + 1
  /\ \A e0 \in EventsOf(0, {"qk", "pv"}), e1 \in EventsOf(1, {"qk", "pv"}) :
       e0.phase # e1.phase
  /\ \A g \in ComputeWGs :
       LET t == timeline[g]
           arrivals == Cardinality({i \in 1 .. Len(t) : t[i].op = "arrive"})
       IN  /\ arrivals - Rendezvous(g) \in {0, 1}
           /\ \A i \in 1 .. Len(t) :
                t[i].op = "wait" => i > 1 /\ t[i - 1].op = "arrive"
           /\ Rendezvous(g) <= 2 * num_kv_tiles + 1
           /\ Len(t) > 0 => t[1].op = (IF g = 1 THEN "arrive" ELSE "qk")
           /\ pc[g] = "done" =>
                /\ Rendezvous(g) = 2 * num_kv_tiles + 1
                /\ arrivals = 2 * num_kv_tiles + 1
                /\ t[Len(t)].op = (IF g = 0 THEN "wait" ELSE "pv")
                /\ Cardinality({i \in 1 .. Len(t) : t[i].op \in {"qk", "pv"}})
                     = 2 * num_kv_tiles

\* both compute groups have finished a loop of MaxTiles steps
ScheduleLockStepWitness ==
  /\ pc[0] = "done"
  /\ pc[1] = "done"
  /\ num_kv_tiles = MaxTiles
  /\ Rendezvous(0) = 2 * MaxTiles + 1
  /\ Rendezvous(1) = 2 * MaxTiles + 1

\* ------------------------------------------------------------------------
\* C23: barrier phases are completed by the right arrivals
\* ------------------------------------------------------------------------
\* the barriers of a kernel instance
AllocatedBarriers ==
  ({"k", "v", "kc", "vc"} \X Slots) \cup ({"q"} \X ComputeWGs) \cup {<<"s", 0>>}

BarrierAt(key) ==
  CASE key[1] = "k" -> k_barriers[key[2]]
    [] key[1] = "v" -> v_barriers[key[2]]
    [] key[1] = "kc" -> k_consumed_barriers[key[2]]
    [] key[1] = "vc" -> v_consumed_barriers[key[2]]
    [] key[1] = "q" -> q_barriers[key[2]]
    [] OTHER -> schedule_barrier

\* the arrivals compute group g has made on the consumed barrier of slot s
ConsumedArrivals(g, kind, s) ==
  Cardinality({i \in 1 .. Len(signals[g]) :
                 signals[g][i][1] = kind /\ signals[g][i][2] % max_concurrent_steps = s})

\* the arrivals group g made on the schedule barrier with p phases complete
ScheduleArrivals(g, p) ==
  Cardinality({i \in 1 .. Len(timeline[g]) :
                 timeline[g][i].op = "arrive" /\ timeline[g][i].phase = p})

\* the transfers into slot s that were issued and are no longer in flight
CompletedTransfers(kind, s) ==
  Cardinality({i \in 1 .. Len(issued) :
                 issued[i].kind = kind /\ issued[i].slot = s /\ issued[i] \notin tma})

ConsumedPhasesExact(kind, b, s) ==
  /\ \A g \in ComputeWGs : ConsumedArrivals(g, kind, s) - b.phase \in {0, 1}
  /\ b.pending = ConsumedArrivals(0, kind, s) + ConsumedArrivals(1, kind, s) - 2 * b.phase

SchedulePhasesExact ==
  /\ \A g \in ComputeWGs :
       /\ \A p \in 0 .. (schedule_barrier.phase - 1) : ScheduleArrivals(g, p) = 1
       /\ ScheduleArrivals(g, schedule_barrier.phase) <= 1
       /\ \A i \in 1 .. Len(timeline[g]) : timeline[g][i].phase <= schedule_barrier.phase
  /\ schedule_barrier.pending =
       ScheduleArrivals(0, schedule_barrier.phase) + ScheduleArrivals(1, schedule_barrier.phase)

ReadyPhasesExact ==
  /\ \A s \in Slots :
       /\ k_barriers[s].pending = 0
       /\ k_barriers[s].phase = CompletedTransfers("k", s)
       /\ v_barriers[s].pending = 0
       /\ v_barriers[s].phase = CompletedTransfers("v", s)
  /\ \A g \in ComputeWGs :
       /\ q_barriers[g].pending = 0
       /\ q_barriers[g].phase =
            (IF pc[g] = "q_copy" \/ (\E x \in tma : x.kind = "q" /\ x.slot = g) THEN 0 ELSE 1)

\* the tile a compute group is waiting for, or has waited for, on a ready
\* barrier is one of the n tiles
ReadyWaitsWithinTiles ==
  \A g \in ComputeWGs :
    /\ pc[g] = "k_wait0" => 0 < num_kv_tiles
    /\ pc[g] = "k_wait" => kv_step[g] + 1 < num_kv_tiles
    /\ pc[g] = "v_wait" => kv_step[g] < num_kv_tiles
    /\ \A s \in Slots, kind \in {"k", "v"} :
         waits[g][<<kind, s>>] > 0 =>
           s + (waits[g][<<kind, s>>] - 1) * max_concurrent_steps < num_kv_tiles

BarrierState ==
  /\ \A s \in Slots :
       /\ ConsumedPhasesExact("k", k_consumed_barriers[s], s)
       /\ ConsumedPhasesExact("v", v_consumed_barriers[s], s)
  /\ SchedulePhasesExact
  /\ ReadyPhasesExact
  /\ \A wg \in WGs, key \in AllocatedBarriers : waits[wg][key] <= BarrierAt(key).phase
  /\ ReadyWaitsWithinTiles
  /\ AllDone => \A key \in AllocatedBarriers : BarrierAt(key).pending = 0

\* a wait is the next one of its group on its barrier, and the phase of that
\* number is complete when the wait is made
WaitConsumesCompletedPhase ==
  \A wg \in WGs, key \in AllocatedBarriers :
    waits'[wg][key] # waits[wg][key] =>
      /\ waits'[wg][key] = waits[wg][key] + 1
      /\ waits'[wg][key] <= BarrierAt(key).phase

\* C23: in every reachable state each key-consumed, value-consumed and
\* schedule barrier has received, per completed phase, one arrival from
\* compute group 0 and one from compute group 1, and at most one from each
\* in the phase in progress; each ready barrier has completed as many phases
\* as transfers into its slot have finished and never holds a partial
\* phase; no group has waited more often on a barrier than the barrier has
\* completed phases, and every wait takes the next phase not yet waited for
\* by that group, which is complete at that moment; a compute group waits on
\* ready barriers only for tiles below n; with all three groups finished no
\* barrier has pending arrivals.
BarrierPhasesComplete == [](BarrierState) /\ [][WaitConsumesCompletedPhase]_vars

\* all groups have finished a loop of MaxTiles steps in which slot 0 was
\* refilled, so its barriers went through two phases
BarrierPhasesWitness ==
  /\ AllDone
  /\ num_kv_tiles = MaxTiles
  /\ k_consumed_barriers[0].phase >= 2
  /\ v_barriers[0].phase >= 2
  /\ schedule_barrier.phase = 2 * MaxTiles + 1

====
